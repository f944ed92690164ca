---------------------------- MODULE SeqDispatch ----------------------------
(***************************************************************************)
(* From the bytes of a sequence to the handler that runs: the host sends    *)
(* the sequences a terminal has registered, one after another, each whole;  *)
(* IsControlSeq gives a type, and SerialConnVT::ProcessControlSeq runs the  *)
(* handler mFunctions holds under the number of that type.  A scenario with *)
(* no alphabet is one in which the host sends these sequences; in the       *)
(* others it sends ControlParser's arbitrary bytes.                         *)
(***************************************************************************)
EXTENDS ControlParser

VARIABLES
  next,          \* the row the host sends next
  last           \* what became of the row before: its type, the type found, the handler

dvars == <<next, last, vars>>

----------------------------------------------------------------------------
(* The host. *)

Numbers(n) == [i \in 1..(2 * n - 1) |-> IF i % 2 = 1 THEN "1" ELSE ";"]

\* The shortest sequence a row describes, with parameters.
Sample(row) ==
  row.head
  \o (CASE row.ptyp = "No" -> <<>>
        [] row.ptyp \in {"Pn", "Ps"} -> Numbers(Max({row.pnum, 1}))
        [] row.ptyp = "Gs" -> <<"a">>
        [] row.ptyp = "Gn" -> [i \in 1..row.pnum |-> "5"])
  \o row.tail

----------------------------------------------------------------------------
(* ProcessControlSeq. *)

FunctionsOf == [t \in Terminals |-> mFunctions(t)]
Functions == FunctionsOf[scenario.terminal]

\* The mistake of calling the handler installed for the number before.
ProcessControlSeq_Before(type) ==
  IF type \in TypeNames /\ (Number[type] - 1) \in DOMAIN Functions THEN Functions[Number[type] - 1]
  ELSE "none"

\* mFunctions.find(type): the handler, or "none" when nothing is installed.
ProcessControlSeq(type) ==
  IF type \in TypeNames /\ Number[type] \in DOMAIN Functions THEN Functions[Number[type]]
  ELSE "none"

Nothing == [sent |-> "SEQ_NONE", found |-> "SEQ_NONE", ran |-> "none"]

DispatchInit == Init /\ next = 1 /\ last = Nothing

Dispatch ==
  LET found == IsControlSeq(Sample(Rows[next])).type
  IN /\ scenario.alphabet = {} /\ next <= Len(Rows)
     /\ next' = next + 1
     /\ last' = [sent |-> Rows[next].type, found |-> found, ran |-> ProcessControlSeq(found)]
     /\ UNCHANGED vars

DispatchNext == Dispatch \/ (Next /\ UNCHANGED <<next, last>>)

DispatchSpec == DispatchInit /\ [][DispatchNext]_dvars

----------------------------------------------------------------------------
(* Properties. *)

\* The handler that runs is the one written for the type that was found.  The numbers
\* of the types are given by the ranges ControlSeq.h reserves for each terminal, so that
\* no two types share one (ProcessControlSeq has nothing else to tell them apart).
DispatchIsOwn == last.ran \in {"none", HandlerName(last.found)}

\* A registered sequence for which the terminal has a handler runs that handler: no row
\* registered before its own, by a base class or by itself, takes it away or keeps it
\* waiting, and no other handler is kept under its number.
HandledIsReached ==
  last.sent # "SEQ_NONE" /\ last.sent \in InstalledFor(scenario.terminal)
    => last.ran = HandlerName(last.sent)
=============================================================================
