---------------------------- MODULE MCRawTerminal ----------------------------
(* RawTerminal for TLC: pieces of text that need every branch of the escape *)
(* translation, and JSON texts: parts, actions and parameters that are      *)
(* empty, the one parameter a missing list becomes, a character of three    *)
(* bytes, the frame's own control characters, groups that are empty or end  *)
(* at an item that is no map.                                               *)
EXTENDS RawTerminal

MCPieces == {[src |-> <<65>>, val |-> 65],                  (* A     *)
             [src |-> <<92, 120, 52, 50>>, val |-> 66],     (* \x42  *)
             [src |-> <<92, 49, 48, 51>>, val |-> 67],      (* \103  *)
             [src |-> <<92, 82>>, val |-> CR],              (* \R    *)
             [src |-> <<92, 110>>, val |-> LF],             (* \n    *)
             [src |-> <<92, 92>>, val |-> Backslash],       (* \\    *)
             [src |-> <<LF>>, val |-> LF]}

(* Each of them but the line feed alone, which comes after a carriage return. *)
MCTyping == {<<p>> : p \in {x \in MCPieces : x.src # <<LF>>}}
              \cup {<<p, q>> \in MCPieces \X MCPieces :
                     \/ p.val = CR /\ q.src = <<LF>>
                     \/ p.val = Backslash /\ q.val = 65}
MCCommands ==
  {Command(<<76>>, <<66, 97>>, params) :
     params \in {<<>>, <<<<>>>>, <<<<>>, <<49, 50>>>>, <<<<49>>, <<>>, <<>>>>,
                <<<<228, 184, 173>>>>}}
    \cup {Command(<<76>>, <<>>, <<>>)}

(* One of the frame's control characters in an action or a parameter. *)
MCControls ==
  {Command(<<76>>, <<66, fUS>>, <<<<49>>>>)}
    \cup {Command(<<76>>, <<66>>, <<<<49>>, <<c, 50>>>>) : c \in {fETX, fEOT}}

MCRequests ==
  {Json("map", <<c>>) : c \in MCCommands \cup MCControls}
    \cup {Json("array", <<c, Command(<<77>>, <<>>, <<<<50>>>>)>>) : c \in MCControls}
    \cup {Json("array", <<>>), Json("map without Part", <<>>)}
    \cup {Json("array", <<c, d, Command(<<>>, <<76>>, <<>>)>>) :
             c \in {x \in MCCommands : x.params = <<<<>>>>},
             d \in {NoMap, Command(<<77>>, <<>>, <<<<50>>>>)}}
=============================================================================
