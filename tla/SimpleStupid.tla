----------------------------- MODULE SimpleStupid -----------------------------
(***************************************************************************)
(* The "Simple Stupid" protocol: xterminal/proto/ss.cpp, which makes and   *)
(* parses its frames, and ProtoSs.cpp, which makes one of the JSON text    *)
(* that the raw terminal sends.  A text is a sequence of character codes,  *)
(* a command has a part, an action and parameters.  What ParseJSON, which  *)
(* is external, makes of the text is a record: see Json.                   *)
(***************************************************************************)
LOCAL INSTANCE Integers
LOCAL INSTANCE Sequences
LOCAL INSTANCE SequencesExt
LOCAL INSTANCE FiniteSets
LOCAL INSTANCE Bitwise

fSOH == 1
fSTX == 2
fETX == 3
fEOT == 4
fENQ == 5
fETB == 23
fUS == 31

(* The places of a character in a text, in order. *)
Places(s, c) == SetToSortSeq({i \in DOMAIN s : s[i] = c}, <)
Between(s, from, to) == SubSeq(s, from + 1, to - 1)

b1_count(bits) == Cardinality({n \in 0 .. 7 : (bits \div 2^n) % 2 = 1})

(* A checksum is printable, and has an odd number of bits whenever the bit  *)
(* that is set in an even one fits into the byte.                           *)
ss_chksum(buf) ==
  LET x == FoldLeft(LAMBDA s, c : s ^^ c, 0, buf)
      s == IF x < 48 THEN x + 48 ELSE x
  IN  IF b1_count(s) % 2 = 0 THEN (s | (s + 1)) % 256 ELSE s

(* A char of a std::string, which is signed, compared with a checksum. *)
AsChar(c) == IF c < 128 THEN c ELSE c - 256

ErrorFormat == [part |-> <<>>, action |-> <<>>, params |-> <<>>,
                error |-> "format"]
ErrorChecksum == [ErrorFormat EXCEPT !.error = "chksum"]

(* The fields between the separators; a command without any keeps its ETX. *)
Fields(ss, etx) ==
  LET us == Places(ss, fUS)
      n == Len(us)
      Field(i) == Between(ss, us[i], us[i + 1])
      last == Between(ss, us[n], etx)
  IN  CASE n = 0 -> [ErrorFormat EXCEPT !.part = SubSeq(ss, 3, etx),
                                        !.error = "none"]
        [] n > 0 -> [part |-> Between(ss, 2, us[1]),
                     action |-> IF n = 1 THEN last ELSE Field(1),
                     params |-> IF n = 1 THEN <<>>
                                ELSE [i \in 1 .. n - 2 |-> Field(i + 1)]
                                       \o (IF last = <<>> THEN <<>>
                                                          ELSE <<last>>),
                     error |-> "none"]

(* The checksum between ETX and EOT may be left out. *)
ss_parse_command(ss) ==
  LET etx == Places(ss, fETX)
      eot == Len(ss)
      tail == eot - etx[1]
  IN  CASE \/ eot < 4
           \/ ss[1] # fENQ \/ ss[2] # fSTX \/ ss[eot] # fEOT
           \/ etx = <<>> -> ErrorFormat
        [] OTHER ->
             CASE tail \notin {1, 2} -> ErrorFormat
               [] tail = 2 /\ AsChar(ss[etx[1] + 1])
                                # ss_chksum(Between(ss, 2, etx[1]))
                    -> ErrorChecksum
               [] OTHER -> Fields(ss, etx[1])

(* A request, or a group of them cut at every EOT. *)
ss_parse(msg) ==
  LET eot == Places(msg, fEOT)
      end == Len(msg)
      From(i) == IF i = 1 THEN 1 ELSE eot[i - 1]
      rest == IF eot = <<>> THEN 1 ELSE Last(eot)
  IN  CASE msg[1] = fENQ /\ msg[end] = fEOT -> <<ss_parse_command(msg)>>
        [] msg[1] = fSOH /\ msg[end] = fETB ->
             [i \in DOMAIN eot |->
                ss_parse_command(SubSeq(msg, From(i) + 1, eot[i]))]
             \o (IF rest + 1 < end
                 THEN <<ss_parse_command(SubSeq(msg, rest + 1, end))>>
                 ELSE <<>>)
        [] OTHER -> <<>>

Separated(params) == FlattenSeq([i \in DOMAIN params |-> <<fUS>> \o params[i]])

ss_make_request_SumsETX(part, action, params) ==
  LET body == part \o <<fUS>> \o action \o Separated(params)
  IN  <<fENQ, fSTX>> \o body
        \o <<fETX, ss_chksum(Append(body, fETX)), fEOT>>

ss_make_request(part, action, params) ==
  LET body == part \o <<fUS>> \o action \o Separated(params)
  IN  <<fENQ, fSTX>> \o body \o <<fETX, ss_chksum(body), fEOT>>

ss_make_group(ss) == <<fSOH>> \o ss \o <<fETB>>

-----------------------------------------------------------------------------
(* What ParseJSON returns (external): a map, whose "Part" may be missing, an *)
(* array, or another value or an error.  An item is a map with its part,    *)
(* action and parameters, or NoMap.  Parameters that are missing, or one    *)
(* value and no array, are one parameter.                                   *)
NoMap == [part |-> <<>>, action |-> <<>>, params |-> <<>>, error |-> "no map"]
Command(part, action, params) == [part |-> part, action |-> action,
                                  params |-> params, error |-> "none"]
Json(type, items) == [type |-> type, items |-> items]

MakeCommand(item) == ss_make_request(item.part, item.action, item.params)

(* An array is packed up to the first item that is no map. *)
Maps(items) ==
  LET wrong == {i \in DOMAIN items : items[i] = NoMap}
  IN  IF wrong = {} THEN items
      ELSE SubSeq(items, 1, (CHOOSE i \in wrong : \A j \in wrong : i <= j) - 1)

(* What goes out for a text; nothing when it is neither. *)
_Pack(json) ==
  CASE json.type = "map" -> MakeCommand(json.items[1])
    [] json.type = "array" ->
         ss_make_group(FlattenSeq([i \in DOMAIN Maps(json.items) |->
                                     MakeCommand(Maps(json.items)[i])]))
    [] OTHER -> <<>>
=============================================================================
