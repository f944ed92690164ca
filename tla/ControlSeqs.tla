---------------------------- MODULE ControlSeqs ----------------------------
(***************************************************************************)
(* The control sequences each terminal registers, the numbers of their     *)
(* types and the handlers installed for the numbers                         *)
(* (src/xterminal/connimpls: ControlSeq.h and the *ControlSeq.cpp/.h of     *)
(* ecma48, vt100, ansi, vt200 ... vt500 and xterm).                         *)
(*                                                                         *)
(* A byte is a one-character string, or the name of its control character;  *)
(* E is ESC.  Pure data: rows in the order of registration, because the     *)
(* matcher takes the first that fits.                                       *)
(***************************************************************************)
EXTENDS Integers, Sequences, SequencesExt

E == "ESC"
SP == " "
QT == "\""
GR == "GRAVE"
Esc == <<E>>
Csi == <<E, "[">>
Dec == <<E, "[", "?">>
Gt == <<E, "[", ">">>

\* One registered sequence: it begins with head, has parameters of type ptyp (pnum
\* of them, 0 for any number) and ends with tail.
Row(type, head, ptyp, pnum, tail) ==
  [type |-> type, head |-> head, ptyp |-> ptyp, pnum |-> pnum, tail |-> tail]
C0(name) == Row(name, <<name>>, "No", 0, <<>>)
Esc1(type, tail) == Row(type, Esc, "No", 0, tail)
CsiPn(type, tail) == Row(type, Csi, "Pn", 0, tail)
CsiPs(type, tail) == Row(type, Csi, "Ps", 0, tail)

----------------------------------------------------------------------------
Ecma48ControlSeqs == <<
  C0("ACK"), Row("APC", <<E, "_">>, "Gs", 0, <<E, "\\">>), C0("BEL"), Esc1("BPH", <<"B">>),
  C0("BS"), C0("CAN"), CsiPn("CBT", <<"Z">>), Esc1("CCH", <<"T">>), CsiPn("CHA", <<"G">>),
  CsiPn("CHT", <<"I">>), Row("CMD", Csi, "No", 0, <<"d">>), CsiPn("CNL", <<"E">>),
  CsiPn("CPL", <<"F">>), CsiPn("CPR", <<"R">>), C0("CR"), CsiPs("CTC", <<"W">>),
  CsiPn("CUB", <<"D">>), CsiPn("CUD", <<"B">>), CsiPn("CUF", <<"C">>), CsiPn("CUP", <<"H">>),
  CsiPn("CUU", <<"A">>), CsiPn("CVT", <<"Y">>), CsiPs("DA", <<"c">>), CsiPs("DAQ", <<"o">>),
  CsiPn("DCH", <<"P">>), Esc1("DCS", <<"P">>), C0("DC1"), C0("DC2"), C0("DC3"), C0("DC4"),
  CsiPn("DL", <<"M">>), C0("DLE"), Esc1("DMI", <<GR>>), CsiPs("DSR", <<"n">>),
  CsiPn("DTA", <<SP, "T">>), CsiPs("EA", <<"O">>), CsiPn("ECH", <<"X">>), CsiPs("ED", <<"J">>),
  CsiPs("EF", <<"N">>), CsiPs("EL", <<"K">>), C0("EM"), Esc1("EMI", <<"b">>), C0("ENQ"),
  C0("EOT"), Esc1("EPA", <<"W">>), Esc1("ESA", <<"G">>), C0("ETB"), C0("ETX"), C0("FF"),
  CsiPn("FNK", <<SP, "W">>), CsiPn("FNT", <<SP, "D">>), CsiPs("GCC", <<SP, "_">>),
  CsiPn("GSM", <<SP, "B">>), CsiPn("GSS", <<SP, "C">>), CsiPn("HPA", <<GR>>),
  CsiPn("HPB", <<"j">>), CsiPn("HPR", <<"a">>), C0("HT"), Esc1("HTJ", <<"I">>),
  Esc1("HTS", <<"H">>), CsiPn("HVP", <<"f">>), CsiPn("ICH", <<"@">>),
  CsiPs("IDCS", <<SP, "O">>), CsiPs("IGS", <<SP, "M">>), CsiPn("IL", <<"L">>),
  Esc1("INT", <<"a">>), C0("US"), C0("RS"), C0("GS"), C0("FS"), CsiPs("JFY", <<SP, "F">>),
  C0("LF"), C0("SI"), C0("SO"), Esc1("LS1R", <<"~">>), Esc1("LS2", <<"n">>),
  Esc1("LS2R", <<"}">>), Esc1("LS3", <<"o">>), Esc1("LS3R", <<"|">>), CsiPs("MC", <<"i">>),
  Esc1("MW", <<"U">>), C0("NAK"), Esc1("NBH", <<"C">>), Esc1("NEL", <<"E">>),
  CsiPn("NP", <<"U">>), Row("OSC", <<E, "]">>, "Gs", 0, <<E, "\\">>), CsiPs("PEC", <<SP, "Z">>),
  CsiPs("PFS", <<SP, "J">>), Esc1("PLD", <<"K">>), Esc1("PLU", <<"L">>), Esc1("PM", <<"^">>),
  CsiPn("PP", <<"V">>), CsiPn("PPA", <<SP, "P">>), CsiPn("PPB", <<SP, "R">>),
  CsiPn("PPR", <<SP, "Q">>), CsiPs("PTX", <<"\\">>), Esc1("PU1", <<"Q">>), Esc1("PU2", <<"R">>),
  CsiPs("QUAD", <<SP, "H">>), CsiPn("REP", <<"b">>), Esc1("RI", <<"M">>), Esc1("RIS", <<"c">>),
  CsiPs("RM", <<"l">>), CsiPn("SACS", <<SP, "\\">>), CsiPs("SAPV", <<SP, "]">>),
  Esc1("SCI", <<"Z">>), CsiPs("SCO", <<SP, "e">>), CsiPs("SCP", <<SP, "k">>),
  CsiPn("SCS", <<SP, "g">>), CsiPn("SD", <<"T">>), CsiPs("SDS", <<"]">>), CsiPs("SEE", <<"Q">>),
  CsiPs("SEF", <<SP, "Y">>), CsiPs("SGR", <<"%", "m">>), CsiPs("SGR", <<"m">>),
  CsiPs("SHS", <<SP, "K">>), CsiPs("SIMD", <<"^">>), CsiPn("SL", <<SP, "@">>),
  CsiPn("SLH", <<SP, "U">>), CsiPn("SLL", <<SP, "V">>), CsiPn("SLS", <<SP, "h">>),
  CsiPs("SM", <<"h">>), C0("SOH"), Row("SOS", <<E, "X">>, "Gs", 0, <<E, "\\">>),
  Esc1("SPA", <<"V">>), CsiPs("SPD", <<SP, "S">>), CsiPn("SPH", <<SP, "i">>),
  CsiPn("SPI", <<SP, "G">>), CsiPn("SPL", <<SP, "j">>), CsiPs("SPQR", <<SP, "X">>),
  CsiPn("SR", <<SP, "A">>), CsiPn("SRCS", <<SP, "f">>), CsiPs("SRS", <<"[">>),
  Esc1("SSA", <<"F">>), CsiPs("SSU", <<SP, "I">>), CsiPn("SSW", <<SP, "[">>),
  Esc1("SS2", <<"N">>), Esc1("SS3", <<"O">>), Row("ST", <<E, "\\">>, "No", 0, <<>>),
  CsiPs("STAB", <<SP, "^">>), Esc1("STS", <<"S">>), C0("STX"), CsiPn("SU", <<"S">>), C0("SUB"),
  CsiPs("SVS", <<SP, "L">>), C0("SYN"), CsiPn("TAC", <<SP, "b">>), CsiPn("TALE", <<SP, "a">>),
  CsiPn("TATE", <<SP, GR>>), CsiPs("TBC", <<"g">>), CsiPn("TCC", <<SP, "c">>),
  CsiPn("TSR", <<SP, "d">>), CsiPn("TSS", <<SP, "E">>), CsiPn("VPA", <<"d">>),
  CsiPn("VPB", <<"k">>), CsiPn("VPR", <<"e">>), C0("VT"), Esc1("VTS", <<"J">>) >>

VT100ControlSeqs == <<
  Row("DECSM", Dec, "Pn", 1, <<"h">>), Row("DECRM", Dec, "Pn", 1, <<"l">>),
  Esc1("DECKPAM", <<"=">>), Esc1("DECKPNM", <<">">>), Row("DECSTBM", Csi, "Pn", 2, <<"r">>),
  Row("G0_CS", <<E, "(">>, "Gn", 1, <<>>), Row("G1_CS", <<E, ")">>, "Gn", 1, <<>>),
  Row("DECMC", Dec, "Pn", 0, <<"i">>), Row("DECDSR", Dec, "Ps", 0, <<"n">>),
  Esc1("DECIND", <<"D">>), CsiPs("DECREQTPARM", <<"x">>), Esc1("DECID", <<"Z">>),
  Row("DECSTBM", Csi, "Pn", 2, <<"r">>), Esc1("DECSC", <<"7">>), Esc1("DECRC", <<"8">>),
  Row("DECDHT", <<E, "#">>, "No", 0, <<"3">>), Row("DECDHB", <<E, "#">>, "No", 0, <<"4">>),
  Row("DECSWL", <<E, "#">>, "No", 0, <<"5">>), Row("DECDWL", <<E, "#">>, "No", 0, <<"6">>),
  Row("DECALN", <<E, "#">>, "No", 0, <<"8">>), Row("DECTST", <<E, "4">>, "Ps", 0, <<"y">>),
  CsiPs("DECLL", <<"q">>), Esc1("VT52_ENTER_ANSI_MODE", <<"<">>),
  Esc1("VT52_ENTER_ALTERNATE_KEYPAD_MODE", <<"=">>),
  Esc1("VT52_ENTER_ALTERNATE_KEYPAD_MODE_NUMBERIC", <<">">>), Esc1("VT52_GCS", <<"F">>),
  Esc1("VT52_USUK", <<"G">>), Esc1("VT52_CUU", <<"A">>), Esc1("VT52_CUD", <<"B">>),
  Esc1("VT52_CUR", <<"C">>), Esc1("VT52_CUL", <<"D">>), Esc1("VT52_CUH", <<"H">>),
  Row("VT52_CUP", <<E, "Y">>, "Pn", 0, <<"US">>), Esc1("VT52_RI", <<"I">>),
  Esc1("VT52_ERASE_TO_END_OF_LINE", <<"K">>), Esc1("VT52_ERASE_TO_END_OF_SCREEN", <<"J">>),
  Esc1("VT52_ENTER_AUTO_PRINT_MODE", <<"^">>), Esc1("VT52_EXIT_AUTO_PRINT_MODE", <<"_">>),
  Esc1("VT52_ENTER_PRINTER_CONTROLLER_MODE", <<"W">>),
  Esc1("VT52_EXIT_PRINTER_CONTROLLER_MODE", <<"X">>), Esc1("VT52_PRTSC", <<"]">>),
  Esc1("VT52_PRTCL", <<"V">>) >>

AnsiControlSeqs == <<
  Row("ANSI_SCP", Csi, "No", 0, <<"s">>), Row("ANSI_RCP", Csi, "No", 0, <<"u">>) >>

VT220ControlSeqs == <<
  CsiPs("DECSCL", <<QT, "p">>), Row("G0_CS", <<E, "(">>, "Gn", 1, <<>>),
  Row("G1_CS", <<E, ")">>, "Gn", 1, <<>>), Row("G2_CS", <<E, "*">>, "Gn", 1, <<>>),
  Row("G3_CS", <<E, "+">>, "Gn", 1, <<>>), Row("G0_CS", <<E, "(">>, "Gn", 2, <<>>),
  Row("G1_CS", <<E, ")">>, "Gn", 2, <<>>), Row("G2_CS", <<E, "*">>, "Gn", 2, <<>>),
  Row("G3_CS", <<E, "+">>, "Gn", 2, <<>>), Row("G0_CS", <<E, "(">>, "Gn", 3, <<>>),
  Row("G1_CS", <<E, ")">>, "Gn", 3, <<>>), Row("G2_CS", <<E, "*">>, "Gn", 3, <<>>),
  Row("G3_CS", <<E, "+">>, "Gn", 3, <<>>), Row("S7C1T", <<E, SP, "F">>, "No", 0, <<>>),
  Row("S8C1T", <<E, SP, "G">>, "No", 0, <<>>), CsiPs("DECSCA", <<QT, "q">>),
  Row("DECSEL", Dec, "Ps", 0, <<"K">>), Row("DECSED", Dec, "Ps", 0, <<"J">>),
  CsiPs("PRINTING", <<"i">>), Row("PRINTING", Dec, "Ps", 0, <<"i">>),
  Row("SecondaryDA", Gt, "Ps", 0, <<"c">>), Row("DECSTR", Csi, "No", 0, <<"!", "p">>) >>

VT320ControlSeqs == <<
  CsiPs("DECSASD", <<"$", "}">>), CsiPs("DECSSDT", <<"$", "~">>),
  CsiPs("DECRQTSR", <<"$", "u">>), CsiPs("DECRQPSR", <<"$", "w">>),
  Row("DECRQM", Dec, "Ps", 0, <<"$", "p">>), CsiPs("ANSIRQM", <<"$", "p">>),
  CsiPs("DECRPM", <<"$", "y">>), Row("DECRQUPSS", Csi, "No", 0, <<"&", "u">>),
  Row("G1_CS96", <<E, "-">>, "Gn", 1, <<>>), Row("G1_CS96", <<E, "-">>, "Gn", 2, <<>>),
  Row("G2_CS96", <<E, ".">>, "Gn", 1, <<>>), Row("G2_CS96", <<E, ".">>, "Gn", 2, <<>>),
  Row("G1_CS96", <<E, "/">>, "Gn", 1, <<>>), Row("G1_CS96", <<E, "/">>, "Gn", 2, <<>>) >>

VT420ControlSeqs == <<
  Row("ANSI_CONFORMANCE_LEVEL_1", <<E, SP>>, "No", 0, <<"L">>),
  Row("ANSI_CONFORMANCE_LEVEL_2", <<E, SP>>, "No", 0, <<"M">>),
  Row("ANSI_CONFORMANCE_LEVEL_3", <<E, SP>>, "No", 0, <<"N">>),
  Row("DECSLPP", Csi, "Pn", 1, <<"t">>), Row("DECSLRM", Csi, "Pn", 2, <<"s">>),
  CsiPs("DECCRA", <<"$", "v">>), CsiPs("DECFRA", <<"$", "z">>), CsiPs("DECSERA", <<"$", "{">>),
  CsiPs("DECSACE", <<"$", "x">>), CsiPs("DECCARA", <<"$", "r">>),
  CsiPs("DECRARA", <<"$", "t">>), CsiPs("DECELF", <<"+", "q">>), CsiPs("DECLFKC", <<"*", "}">>),
  CsiPs("DECSMKR", <<"+", "r">>), Row("DECDC", Csi, "Pn", 1, <<",", "~">>),
  Row("DECIC", Csi, "Pn", 1, <<",", "}">>), Row("DECBI", <<E, "6">>, "No", 0, <<>>),
  Row("DECFI", <<E, "9">>, "No", 0, <<>>), Row("DECSNLS", Csi, "Pn", 1, <<"*", "|">>),
  Row("TertiaryDA", <<E, "[", "=">>, "Pn", 1, <<"c">>), CsiPs("DECRQCRA", <<"*", "y">>),
  Row("DECRQDE", Csi, "No", 0, <<QT, "v">>), Row("DECES", Csi, "No", 0, <<"&", "x">>),
  Row("DECINVM", Csi, "Pn", 1, <<"*", "z">>) >>

VT520ControlSeqs == <<
  Row("DDD1", <<E, ")", "1">>, "No", 0, <<>>), Row("DDD2", <<E, ")", "B">>, "No", 0, <<>>),
  Row("DDD3", <<E, "(", "1">>, "No", 0, <<>>), Row("DECAC", Csi, "Ps", 3, <<",", "|">>),
  Row("DECARR", Csi, "Ps", 1, <<"-", "p">>), Row("DECATC", Csi, "Ps", 3, <<",", "}">>),
  CsiPs("DECCKSR", <<"n">>), Row("DECCRTST", Csi, "Ps", 1, <<"-", "q">>),
  Row("DECDHLT", <<E, "#", "3">>, "No", 0, <<>>),
  Row("DECDHLB", <<E, "#", "4">>, "No", 0, <<>>), Row("DECDLDA", Csi, "Ps", 1, <<",", "z">>),
  Row("DECKBD", Csi, "Ps", 2, <<SP, "}">>), Row("DECLTOD", Csi, "Ps", 2, <<",", "p">>),
  Row("DECPCTERM", Dec, "Ps", 2, <<"r">>), Row("DECPKA", Csi, "Ps", 1, <<"+", "z">>),
  Row("DECPS", Csi, "Ps", 3, <<",", "~">>), Row("DECRQKD", Csi, "Ps", 2, <<",", "w">>),
  Row("DECRQKT", Csi, "Ps", 1, <<",", "u">>),
  Row("DECRQPKFM", <<E, "[", "+", "x">>, "No", 0, <<>>),
  Row("DECCTR", <<E, "[", "2", ";">>, "Ps", 1, <<"$", "u">>),
  Row("DECSCP", Csi, "Ps", 2, <<"*", "u">>), Row("DECSCS", Csi, "Ps", 2, <<"*", "r">>),
  Row("DECSCUSR", Csi, "Ps", 1, <<SP, "q">>), Row("DECSDDT", Csi, "Ps", 1, <<"$", "q">>),
  Row("DECSDPT", Csi, "Ps", 1, <<")", "q">>), Row("DECSEST", Csi, "Ps", 1, <<"-", "r">>),
  Row("DECSFC", Csi, "Ps", 4, <<"*", "s">>), Row("DECSKCV", Csi, "Ps", 1, <<SP, "r">>),
  Row("DECSLCK", Csi, "Ps", 1, <<SP, "v">>), Row("DECSMBV", Csi, "Ps", 1, <<SP, "u">>),
  Row("DECSPMA", Csi, "Pn", 4, <<",", "x">>), Row("DECSPP", Csi, "Ps", 4, <<"+", "w">>),
  Row("DECSPPCS", Csi, "Pn", 1, <<"*", "p">>), Row("DECSPRTT", Csi, "Ps", 1, <<"$", "s">>),
  Row("DECSR", Csi, "Ps", 1, <<"+", "p">>), Row("DECSRC", Csi, "Ps", 1, <<"+", "q">>),
  Row("DECSSCLS", Csi, "Ps", 1, <<SP, "p">>), Row("DECSSL", Csi, "Ps", 1, <<"p">>),
  Row("DECSSL", <<E, "[", "?", "5", "W">>, "No", 0, <<>>),
  Row("DECSTGLT", Csi, "Ps", 1, <<")", "{">>), Row("DECSTRL", Csi, "Ps", 2, <<QT, "u">>),
  Row("DECSWBV", Csi, "Ps", 1, <<SP, "t">>), Row("DECSZS", Csi, "Ps", 1, <<",", "{">>),
  Row("DECTID", Csi, "Ps", 1, <<",", "q">>), Row("DECTME", Csi, "Ps", 1, <<SP, "~">>),
  Row("DECUS", Csi, "Ps", 1, <<SP, ",", "y">>) >>

XtermControlSeqs == <<
  CsiPs("XTWINOPS", <<"t">>), Row("XTOSC", <<E, "]">>, "Gs", 0, <<"BEL">>),
  Row("XTRMTITLE", Gt, "Ps", 0, <<"T">>), Row("XTSMTITLE", Gt, "Ps", 0, <<"t">>),
  Row("XTMODKEYS", Gt, "Ps", 0, <<"m">>), Row("XTDISABLEMODOPTS", Gt, "Ps", 0, <<"n">>),
  Row("XTSMPOINTER", Gt, "Ps", 0, <<"p">>), Row("XTVERSION", Gt, "Ps", 0, <<"q">>),
  CsiPs("XTPUSHCOLORS", <<"#", "P">>), CsiPs("XTPOPCOLORS", <<"#", "Q">>),
  Row("XTREPORTCOLORS", Csi, "No", 0, <<"#", "R">>), CsiPs("XTREPORTSGR", <<"#", "|">>),
  Row("XTSMGRAPHICS", Dec, "Ps", 0, <<"S">>), Row("XTRESTORE", Dec, "Ps", 0, <<"r">>),
  Row("XTSAVE", Dec, "Ps", 0, <<"s">>), CsiPs("XTPUSHSGR", <<"p">>),
  Row("XTPUSHSGR", Csi, "No", 0, <<"#", "{">>), CsiPs("XTPOPSGR", <<"q">>),
  Row("XTPOPSGR", Csi, "No", 0, <<"#", "}">>), CsiPs("XTCHECKSUM", <<"#", "y">>),
  Row("ANSI_CONFORMANCE_LEVEL1", <<E, SP, "L">>, "No", 0, <<>>),
  Row("ANSI_CONFORMANCE_LEVEL2", <<E, SP, "M">>, "No", 0, <<>>),
  Row("ANSI_CONFORMANCE_LEVEL3", <<E, SP, "N">>, "No", 0, <<>>),
  Row("XTIGNORE", <<E, "[", "I">>, "Gn", 0, <<>>),
  Row("XTIGNORE", <<E, "[", "O">>, "Gn", 0, <<>>),
  Row("XTIGNORE", <<E, "[", "<">>, "Ps", 0, <<"M">>),
  Row("XTIGNORE", <<E, "[", "<">>, "Ps", 0, <<"m">>),
  Row("XTIGNORE", <<E, "[", "M">>, "Gn", 3, <<>>), Row("XTIGNORE", Dec, "Ps", 0, <<"m">>) >>

----------------------------------------------------------------------------
(* The layers of a terminal: each class adds its rows to those of its base. *)

Terminals == {"ecma48", "vt100", "ansi", "vt220", "vt320", "vt420", "vt520", "xterm"}

Layers(terminal) ==
  CASE terminal = "ecma48" -> <<"ecma48">>
    [] terminal = "vt100"  -> <<"ecma48", "vt100">>
    [] terminal = "ansi"   -> <<"ecma48", "vt100", "ansi">>
    [] terminal = "vt220"  -> <<"ecma48", "vt100", "vt220">>
    [] terminal = "vt320"  -> <<"ecma48", "vt100", "vt220", "vt320">>
    [] terminal = "vt420"  -> <<"ecma48", "vt100", "vt220", "vt320", "vt420">>
    [] terminal = "vt520"  -> <<"ecma48", "vt100", "vt220", "vt320", "vt420", "vt520">>
    [] terminal = "xterm"  -> <<"ecma48", "vt100", "vt220", "vt320", "vt420", "vt520", "xterm">>

\* The table of a terminal: its base's, then its own rows.
Table(terminal) ==
  LET Of(layer, rows) == IF layer \in ToSet(Layers(terminal)) THEN rows ELSE <<>>
  IN Of("ecma48", Ecma48ControlSeqs) \o Of("vt100", VT100ControlSeqs)
     \o Of("ansi", AnsiControlSeqs) \o Of("vt220", VT220ControlSeqs)
     \o Of("vt320", VT320ControlSeqs) \o Of("vt420", VT420ControlSeqs)
     \o Of("vt520", VT520ControlSeqs) \o Of("xterm", XtermControlSeqs)

----------------------------------------------------------------------------
(* The enumerations, in the order of their constants. *)

Ecma48SeqType == <<
  "NUL", "SOH", "STX", "ETX", "EOT", "ENQ", "ACK", "BEL", "BS", "HT", "LF", "VT", "FF", "CR",
  "SO", "SI", "DLE", "DC1", "DC2", "DC3", "DC4", "NAK", "SYN", "ETB", "CAN", "EM", "SUB", "ESC",
  "FS", "GS", "RS", "US", "DEL", "APC", "BPH", "CBT", "CCH", "CHA", "CHT", "CMD", "CNL", "CPL",
  "CPR", "CTC", "CUB", "CUD", "CUF", "CUP", "CUU", "CVT", "DA", "DAQ", "DCH", "DCS", "DL",
  "DMI", "DSR", "DTA", "EA", "ECH", "ED", "EF", "EL", "EMI", "EPA", "ESA", "FNK", "FNT", "GCC",
  "GSM", "GSS", "HPA", "HPB", "HPR", "HTJ", "HTS", "HVP", "ICH", "IDCS", "IGS", "IL", "INT",
  "JFY", "LS1R", "LS2", "LS2R", "LS3", "LS3R", "MC", "MW", "NBH", "NEL", "NP", "OSC", "PEC",
  "PFS", "PLD", "PLU", "PM", "PP", "PPA", "PPB", "PPR", "PTX", "PU1", "PU2", "QUAD", "REP",
  "RI", "RIS", "RM", "SACS", "SAPV", "SCI", "SCO", "SCP", "SCS", "SD", "SDS", "SEE", "SEF",
  "SGR", "SHS", "SIMD", "SL", "SLH", "SLL", "SLS", "SM", "SOS", "SPA", "SPD", "SPH", "SPI",
  "SPL", "SPQR", "SR", "SRCS", "SRS", "SSA", "SSU", "SSW", "SS2", "SS3", "ST", "STAB", "STS",
  "SU", "SVS", "TAC", "TALE", "TATE", "TBC", "TCC", "TSR", "TSS", "VPA", "VPB", "VPR", "VTS" >>

VT100SeqType == <<
  "DECSM", "DECRM", "DECKPAM", "DECKPNM", "G0_CS", "G1_CS", "DECMC", "DECDSR", "DECIND",
  "DECREQTPARM", "DECID", "DECSTBM", "DECSC", "DECRC", "DECDHT", "DECDHB", "DECSWL", "DECDWL",
  "DECALN", "DECTST", "DECLL", "VT52_ENTER_ANSI_MODE", "VT52_ENTER_ALTERNATE_KEYPAD_MODE",
  "VT52_ENTER_ALTERNATE_KEYPAD_MODE_NUMBERIC", "VT52_GCS", "VT52_USUK", "VT52_CUU", "VT52_CUD",
  "VT52_CUR", "VT52_CUL", "VT52_CUH", "VT52_CUP", "VT52_RI", "VT52_ERASE_TO_END_OF_LINE",
  "VT52_ERASE_TO_END_OF_SCREEN", "VT52_ENTER_AUTO_PRINT_MODE", "VT52_EXIT_AUTO_PRINT_MODE",
  "VT52_ENTER_PRINTER_CONTROLLER_MODE", "VT52_EXIT_PRINTER_CONTROLLER_MODE", "VT52_PRTSC",
  "VT52_PRTCL" >>

AnsiSeqType == <<
  "ANSI_SCP", "ANSI_RCP" >>

VT220SeqType == <<
  "DECSCL", "G2_CS", "G3_CS", "S7C1T", "S8C1T", "DECSCA", "DECSEL", "DECSED", "PRINTING",
  "SecondaryDA", "DECSTR" >>

VT320SeqType == <<
  "DECSASD", "DECSSDT", "DECRQTSR", "DECRQPSR", "DECRQM", "ANSIRQM", "DECRPM", "DECRQUPSS",
  "G1_CS96", "G2_CS96", "G3_CS96" >>

VT420SeqType == <<
  "DECINVM", "ANSI_CONFORMANCE_LEVEL_1", "ANSI_CONFORMANCE_LEVEL_2", "ANSI_CONFORMANCE_LEVEL_3",
  "DECSLPP", "DECSLRM", "DECCRA", "DECERA", "DECFRA", "DECSERA", "DECSACE", "DECCARA",
  "DECRARA", "DECELF", "DECLFKC", "DECSMKR", "DECDC", "DECIC", "DECBI", "DECFI", "DECSNLS",
  "TertiaryDA", "DECRQCRA", "DECRQDE", "DECES" >>

VT520SeqType == <<
  "DDD1", "DDD2", "DDD3", "DECAC", "DECARR", "DECATC", "DECCKSR", "DECCRTST", "DECDHLT",
  "DECDHLB", "DECDLDA", "DECKBD", "DECLTOD", "DECMSR", "DECPCTERM", "DECPKA", "DECPS",
  "DECRQKD", "DECRQKT", "DECRQPKFM", "DECCTR", "DECSCP", "DECSCS", "DECSCUSR", "DECSDDT",
  "DECSDPT", "DECSEST", "DECSFC", "DECSKCV", "DECSLCK", "DECSMBV", "DECSPMA", "DECSPP",
  "DECSPPCS", "DECSPRTT", "DECSR", "DECSRC", "DECSSCLS", "DECSSL", "DECST8C", "DECSTGLT",
  "DECSTRL", "DECSWBV", "DECSZS", "DECTID", "DECTME", "DECUS" >>

XtermSeqType == <<
  "XTPUSHCOLORS", "XTPOPCOLORS", "XTSMGRAPHICS", "XTHIMOUSE", "XTRMTITLE", "XTMODKEYS",
  "XTSMPOINTER", "XTPUSHSGR", "XTPOPSGR", "XTVERSION", "XTRESTORE", "XTSAVE", "XTWINOPS",
  "XTSMTITLE", "XTCHECKSUM", "XTREPORTCOLORS", "XTREPORTSGR", "XTDISABLEMODOPTS", "XTOSC",
  "ANSI_CONFORMANCE_LEVEL1", "ANSI_CONFORMANCE_LEVEL2", "ANSI_CONFORMANCE_LEVEL3", "XTIGNORE" >>

\* The ranges ControlSeq.h lays out, a hundred numbers for every terminal.
SEQ_NONE == 0
SEQ_PENDING == 1
SEQ_CORRUPTED == 2
SEQ_BEGIN ==
  [ecma48 |-> 3, vt100 |-> 204, ansi |-> 305, vt220 |-> 406, vt320 |-> 507, vt420 |-> 608,
   vt520 |-> 709, xterm |-> 810]

\* Where each enumeration really begins: VT420SeqType at VT300_SEQ_BEGIN, VT520SeqType
\* at nothing, which is 0.
EnumBegin == [SEQ_BEGIN EXCEPT !.vt420 = SEQ_BEGIN.vt320, !.vt520 = 0]

EnumOf ==
  [ecma48 |-> Ecma48SeqType, vt100 |-> VT100SeqType, ansi |-> AnsiSeqType,
   vt220 |-> VT220SeqType, vt320 |-> VT320SeqType, vt420 |-> VT420SeqType,
   vt520 |-> VT520SeqType, xterm |-> XtermSeqType]

TypeNames == UNION {ToSet(EnumOf[l]) : l \in DOMAIN EnumOf}

LayerOf == [name \in TypeNames |-> CHOOSE l \in DOMAIN EnumOf : name \in ToSet(EnumOf[l])]

Number ==
  [name \in TypeNames |->
    LET l == LayerOf[name]
    IN EnumBegin[l] + (CHOOSE i \in DOMAIN EnumOf[l] : EnumOf[l][i] = name) - 1]

----------------------------------------------------------------------------
(* InstallFunctions: the types a layer installs a handler for. *)

Ecma48Installs == ToSet(Ecma48SeqType) \ {"NUL", "ESC"}

VT100Installs ==
  {"DECKPNM", "DECKPAM", "DECSM", "DECRM", "DECDSR", "G0_CS", "G1_CS", "DECREQTPARM",
   "DECSTBM", "DECSC", "DECRC", "DECALN", "DECTST", "DECLL", "DECIND"}
AnsiInstalls == {"ANSI_RCP", "ANSI_SCP"}
VT220Installs ==
  {"DECSCL", "G2_CS", "G3_CS", "S7C1T", "S8C1T", "DECSCA", "DECSEL", "DECSED", "DECSTR",
   "SecondaryDA"}
VT320Installs == ToSet(VT320SeqType)
VT420Installs == {"TertiaryDA", "DECDC"}
VT520Installs == {"DECAC", "DECST8C"}
XtermInstalls ==
  ToSet(XtermSeqType) \ {"XTREPORTCOLORS", "XTREPORTSGR", "ANSI_CONFORMANCE_LEVEL1",
                         "ANSI_CONFORMANCE_LEVEL2", "ANSI_CONFORMANCE_LEVEL3", "XTIGNORE"}

Installs ==
  [ecma48 |-> Ecma48Installs, vt100 |-> VT100Installs, ansi |-> AnsiInstalls,
   vt220 |-> VT220Installs, vt320 |-> VT320Installs, vt420 |-> VT420Installs,
   vt520 |-> VT520Installs, xterm |-> XtermInstalls]

InstalledFor(terminal) ==
  LET layers == Layers(terminal) IN UNION {Installs[layers[i]] : i \in DOMAIN layers}

\* The handler is Process followed by the type's name, with these exceptions.
HandlerName(type) ==
  CASE type = "LS2R" -> "LS2"
    [] type = "LS3R" -> "LS3"
    [] type = "ANSI_RCP" -> "DECRC"
    [] type = "ANSI_SCP" -> "DECSC"
    [] OTHER -> type

\* mFunctions is keyed by the number: a later layer replaces the handler of an
\* earlier one whose type has the same number.
mFunctions(terminal) ==
  LET ls == Layers(terminal)
      keys == {Number[n] : n \in InstalledFor(terminal)}
      Of(i, k) == {n \in Installs[ls[i]] : Number[n] = k}
  IN [k \in keys |->
       LET last == CHOOSE i \in DOMAIN ls :
                     /\ Of(i, k) # {}
                     /\ \A j \in DOMAIN ls : j > i => Of(j, k) = {}
       IN HandlerName(CHOOSE n \in Of(last, k) : TRUE)]

============================================================================
