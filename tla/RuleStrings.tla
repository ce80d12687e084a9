---------------------------- MODULE RuleStrings ----------------------------
(***************************************************************************)
(* The texts that travel round the firewall.  The kernel formats a packet  *)
(* and looks up a part of the text (str_split); the report, which is the   *)
(* text with the verdict behind it, is cut into columns by the service     *)
(* (skbInsert); a click on the row makes a rule of two columns             *)
(* (onSkbClick); the kernel tests the rule's shape (check_rule) and later  *)
(* compares it with what it cuts out of the next packets.  Nothing but     *)
(* these five pieces of string handling makes a clicked rule match.        *)
(*                                                                         *)
(* A text is a sequence of tokens: the separators ",", ":" and ".", and    *)
(* numbers and words, which contain none of them and are one token each.   *)
(***************************************************************************)
EXTENDS Naturals, Sequences, FiniteSets, SeqOps

CONSTANTS
    Addr,    \* addresses, as token sequences
    Port,    \* port numbers
    Device,  \* device names, as token sequences
    MaxRules \* bound: rules in the table

\* What the values of the constants must satisfy: addresses and names are sequences, and
\* four numbers with dots between them make an address
AddrAssumption ==
    /\ \A text \in Addr \cup Device : text \in Seq(ToSet(text))
    /\ \A a \in Addr : Len(a) = 7 /\ \A i \in 1 .. 7 : IF i % 2 = 0 THEN a[i] = "."
                                                     ELSE a[i] \notin {".", ",", ":"}
    /\ Port \cap {",", ":"} = {}

Flow == [src : Addr, dst : Addr]

\* Received packets carry a device; packets sent name none, and a process.
Packet == [way : {"in"}, flow : Flow, sport : Port, dport : Port, dev : Device]
             \cup [way : {"out"}, flow : Flow, sport : Port, dport : Port, dev : {<<"unknown">>}]

VARIABLES
    table,    \* rule texts in the kernel
    last,     \* the packet that met a hook last, as a set of at most one
    rows,     \* its row in the packet table
    clicked   \* history: the flows of the rows the user has clicked

vars == <<table, last, rows, clicked>>

Count(s, t) == Cardinality({i \in 1 .. Len(s) : s[i] = t})

\* The first position from i on that holds t, or the end of the text.
Find(s, i, t) ==
    LET hits == {j \in i .. Len(s) : s[j] = t}
    IN  IF hits = {} THEN Len(s) + 1 ELSE CHOOSE j \in hits : \A k \in hits : j <= k
-----------------------------------------------------------------------------
(* The kernel's side: nmjfilter.c.                                         *)

\* The sprintf of print_skb_info (proto is TCP or UDP) and of print_sock_info
\* without its "nmj ".
Format(p) ==
    <<IF p.way = "in" THEN "0" ELSE "pid", ",">>
        \o p.flow.src \o <<":", p.sport, ",">>
        \o p.flow.dst \o <<":", p.dport, ",">> \o p.dev \o <<",", "TCP">>

Report(p, verdict) ==
    (IF p.way = "in" THEN <<>> ELSE <<"nmj", " ">>) \o Format(p) \o <<",", verdict>>

\* Mutant: the destination is copied with its port.
StrSplitWithPort(s) ==
    LET a == Find(s, 1, ",") + 1
        b == Find(s, a, ":")
        c == Find(s, b, ",")
        d == Find(s, c + 1, ",")
    IN  SubSeq(s, a, b - 1) \o SubSeq(s, c, d - 1)

\* str_split: what lies between the first comma and the next colon, and from the
\* comma after that to the colon after it.
StrSplit(s) ==
    LET a == Find(s, 1, ",") + 1
        b == Find(s, a, ":")
        c == Find(s, b, ",")
        d == Find(s, c, ":")
    IN  SubSeq(s, a, b - 1) \o SubSeq(s, c, d - 1)

\* check_rule: one comma and six dots.
CheckRule(s) == Count(s, ",") = 1 /\ Count(s, ".") = 6

\* need_drop: some rule equals the piece cut out.
Verdict(p) == IF StrSplit(Format(p)) \in table THEN "0" ELSE "1"
-----------------------------------------------------------------------------
(* The app's side: MyService.java, MainActivity.java.                      *)

\* String.split(","), for a text that does not end in a comma.
Split(s) == FoldLeft(LAMBDA pieces, t :
                         IF t = "," THEN Append(pieces, <<>>)
                         ELSE Append(Front(pieces), Append(Last(pieces), t)),
                     << <<>> >>, s)

\* onNativeRcvCall drops the first four characters of a report of a sent packet.
Payload(s) == IF s[1] = "nmj" THEN SubSeq(s, 3, Len(s)) ELSE s

\* skbInsert wants six columns.
Columns(dump) == Len(dump) = 6

\* The row skbInsert makes of a report, as a set of at most one.
Row(s) == LET dump == Split(Payload(s))
          IN  IF Columns(dump)
              THEN {[saddr |-> dump[2], daddr |-> dump[3], drop |-> dump[6]]}
              ELSE {}

\* onSkbClick: split(":")[0] of both address columns.
RuleOf(row) == SubSeq(row.saddr, 1, Find(row.saddr, 1, ":") - 1) \o <<",">>
                   \o SubSeq(row.daddr, 1, Find(row.daddr, 1, ":") - 1)
-----------------------------------------------------------------------------
Init == table = {} /\ last = {} /\ rows = {} /\ clicked = {}

\* A packet meets a hook, is looked up and reported, and the report becomes a row; the
\* row of the packet before it has been cleared away.
Pass(p) == /\ last' = {p}
           /\ rows' = {[packet |-> p, cells |-> r] : r \in Row(Report(p, Verdict(p)))}
           /\ UNCHANGED <<table, clicked>>

\* The user clicks a row; the rule is sent and receive_msg pushes it if it is well
\* formed.
Click(row) ==
    LET rule == RuleOf(row.cells)
    IN  /\ Cardinality(table) < MaxRules
        /\ table' = IF CheckRule(rule) THEN table \cup {rule} ELSE table
        /\ clicked' = clicked \cup {row.packet.flow}
        /\ UNCHANGED <<last, rows>>

Next == (\E p \in Packet : Pass(p)) \/ (\E row \in rows : Click(row))

Spec == Init /\ [][Next]_vars
-----------------------------------------------------------------------------
(* Properties.                                                             *)

\* Rules are well formed, rows are those of packets.
TypeOK == /\ \A r \in table : Len(r) = 15
          /\ \A row \in rows : row.packet \in last

\* A click on any row of a flow makes every later packet of the flow pass, whatever its
\* way, ports and device.
ClickAdmitsFlow == \A p \in last : p.flow \in clicked => Verdict(p) = "0"

\* Nothing passes that was not clicked: what str_split cuts out of a packet of one flow
\* never equals the rule of another.
OnlyClickedPass == \A p \in last : Verdict(p) = "0" => p.flow \in clicked

\* The row shown is that of the packet, with the verdict it met: no column is shifted,
\* whatever the device is called.
RowTellsPacket ==
    \A row \in rows : /\ SubSeq(row.cells.saddr, 1, 7) = row.packet.flow.src
                      /\ SubSeq(row.cells.daddr, 1, 7) = row.packet.flow.dst
                      /\ IF row.packet.flow \in clicked THEN row.cells.drop \in {<<"0">>, <<"1">>}
                         ELSE row.cells.drop = <<"1">>

\* The user gets to see every packet, unless its device's name contains a comma, which
\* dev_valid_name permits.
EveryPacketIsShown == \A p \in last : Count(p.dev, ",") = 0 => rows # {}
=============================================================================
