----------------------------- MODULE RuleTable -----------------------------
(***************************************************************************)
(* The rule table of src/nmjfilter.c: the list my_rules, the netlink       *)
(* callback receive_msg that appends to it, and need_drop, by which every  *)
(* filtered packet walks it.                                               *)
(*                                                                         *)
(* receive_msg runs in the task that sent the netlink message, one call at *)
(* a time (generic netlink holds genl_mutex around a doit callback).       *)
(* need_drop runs in softirq context on any CPU (from napi_gro_receive)    *)
(* and in any task that sends on a socket (from inet_sendmsg).  Nothing    *)
(* synchronises the two: there is no lock, no RCU and no barrier around    *)
(* list_add_tail and list_for_each_entry, so a walk sees the stores of an  *)
(* append one by one, and on a weakly ordered CPU in any order.            *)
(*                                                                         *)
(* A rule's characters are abstracted: a text is one value, check_rule is  *)
(* membership in Admissible, strcmp is equality.  RuleStrings has the      *)
(* string functions themselves.                                            *)
(***************************************************************************)
EXTENDS Naturals, Sequences

CONSTANTS
    Ctx,            \* contexts that evaluate need_drop: softirqs, sending tasks
    Text,           \* rule texts: what str_split yields, what netlink delivers
    Admissible,     \* the texts check_rule admits (one comma, six dots)
    MaxRules,       \* bound: items the table may grow to
    OrderedStores,  \* TRUE: stores are seen in program order (x86); FALSE: any (ARM)
    ReloadDrop,     \* TRUE: need_drop's test reads the global drop again (no optimiser)
    AllocMayFail    \* TRUE: the kmalloc of rule_push may return NULL

ASSUME TextAssumption == Admissible \subseteq Text /\ Text # {}
ASSUME BoundAssumption == MaxRules \in Nat
ASSUME SwitchAssumption == /\ OrderedStores \in BOOLEAN
                           /\ ReloadDrop \in BOOLEAN
                           /\ AllocMayFail \in BOOLEAN

VARIABLES
    list,     \* the data of the items whose append is complete, in list order
    length,   \* my_rules.length
    writer,   \* where receive_msg is; "idle" when no message is being handled
    adding,   \* the rule text in receive_msg's hands
    visible,  \* the stores of the append under way that other CPUs can see
    told,     \* the rules whose "add" message was multicast
    drop,     \* the file's global int drop
    pc,       \* pc[c]: where c is in need_drop
    want,     \* want[c]: the rule text c looks for (str_split's result)
    pos,      \* pos[c]: how many items c's list cursor has moved over
    res,      \* res[c]: what rules_for_each returned to c
    verdict,  \* verdict[c]: what need_drop returned to c, 1 meaning drop
    due       \* due[c]: history: c's rule had been announced when c began

writerVars == <<list, length, writer, adding, visible, told>>
readerVars == <<drop, pc, want, pos, res, verdict, due>>
vars == <<list, length, writer, adding, visible, told,
          drop, pc, want, pos, res, verdict, due>>

Store == {"data", "next", "link"}  \* item->data, item->list.next, tail->next

Elements(s) == {s[i] : i \in 1 .. Len(s)}

\* The items reachable from the list head, the half-built one included once the
\* old tail's next points to it.
Chain == IF "link" \in visible THEN Append(list, adding) ELSE list

\* The value of a text variable that is not in use yet.
AnyText == CHOOSE t \in Text : TRUE

\* Contexts inside rules_for_each.
Walking == {"load", "compare"}
-----------------------------------------------------------------------------
\* rules_init, and the static initialiser drop = 1.
Init == /\ list = <<>>
        /\ length = 0
        /\ writer = "idle"
        /\ adding = AnyText
        /\ visible = {}
        /\ told = {}
        /\ drop = 1
        /\ pc = [c \in Ctx |-> "idle"]
        /\ want = [c \in Ctx |-> AnyText]
        /\ pos = [c \in Ctx |-> 0]
        /\ res = [c \in Ctx |-> 1]
        /\ verdict = [c \in Ctx |-> 1]
        /\ due = [c \in Ctx |-> FALSE]
-----------------------------------------------------------------------------
(* The writer: receive_msg, rule_push, list_add_tail.                      *)

\* check_rule; the refused text changes nothing (its copy is leaked).
CheckRule(t) == t \in Admissible

\* receive_msg up to check_rule's verdict on the text of a message.
ReceiveMsg(t) ==
    /\ writer = "idle"
    /\ Len(list) < MaxRules
    /\ IF CheckRule(t)
       THEN writer' = "alloc" /\ adding' = t
       ELSE UNCHANGED <<writer, adding>>
    /\ UNCHANGED <<list, length, visible, told>>
    /\ UNCHANGED readerVars

\* rule_push when kmalloc returns NULL: the failure is not reported, and
\* receive_msg announces the rule all the same.
AllocFails ==
    /\ writer = "alloc"
    /\ AllocMayFail
    /\ writer' = "announce"
    /\ UNCHANGED <<list, length, adding, visible, told>>
    /\ UNCHANGED readerVars

\* rule_push when kmalloc succeeds.
AllocItem ==
    /\ writer = "alloc"
    /\ writer' = "publish"
    /\ UNCHANGED <<list, length, adding, visible, told>>
    /\ UNCHANGED readerVars

\* Mutant: list_add_tail before item->data = data.
LinkBeforeData(s) == s = "data" => "link" \in visible

\* The order of the stores to the new item and to the old tail, as others see it.
MayBecomeVisible(s) ==
    OrderedStores => /\ s = "next" => "data" \in visible
                     /\ s = "link" => {"data", "next"} \subseteq visible

\* One store of item->data = data and list_add_tail becomes visible.
PublishStore(s) ==
    /\ writer = "publish"
    /\ s \in Store \ visible
    /\ MayBecomeVisible(s)
    /\ visible' = visible \cup {s}
    /\ UNCHANGED <<list, length, writer, adding, told>>
    /\ UNCHANGED readerVars

\* Every store is visible: the item is an ordinary member of the list.
ItemComplete ==
    /\ writer = "publish"
    /\ visible = Store
    /\ list' = Append(list, adding)
    /\ visible' = {}
    /\ writer' = "count"
    /\ UNCHANGED <<length, adding, told>>
    /\ UNCHANGED readerVars

\* rules->length++, after the item is in the list.
CountItem ==
    /\ writer = "count"
    /\ length' = length + 1
    /\ writer' = "announce"
    /\ UNCHANGED <<list, adding, visible, told>>
    /\ UNCHANGED readerVars

\* receive_msg after rule_push: it prints the table, which changes nothing, and
\* multicasts "add <rule>".
Announce ==
    /\ writer = "announce"
    /\ told' = told \cup {adding}
    /\ writer' = "idle"
    /\ UNCHANGED <<list, length, adding, visible>>
    /\ UNCHANGED readerVars

WriterStep == \/ AllocFails
              \/ AllocItem
              \/ \E s \in Store : PublishStore(s)
              \/ ItemComplete
              \/ CountItem
              \/ Announce
-----------------------------------------------------------------------------
(* The readers: need_drop and rules_for_each.                              *)

\* Mutant: the walk starts at the second item.
NeedDropSkipsFirst(c, t) ==
    /\ pc[c] = "idle"
    /\ pc' = [pc EXCEPT ![c] = "load"]
    /\ want' = [want EXCEPT ![c] = t]
    /\ pos' = [pos EXCEPT ![c] = IF list = <<>> THEN 0 ELSE 1]
    /\ due' = [due EXCEPT ![c] = t \in told]
    /\ UNCHANGED <<drop, res, verdict>>
    /\ UNCHANGED writerVars

\* need_drop is called and str_split has produced the text t; the cursor is at
\* the list head.
NeedDrop(c, t) ==
    /\ pc[c] = "idle"
    /\ pc' = [pc EXCEPT ![c] = "load"]
    /\ want' = [want EXCEPT ![c] = t]
    /\ pos' = [pos EXCEPT ![c] = 0]
    /\ due' = [due EXCEPT ![c] = t \in told]
    /\ UNCHANGED <<drop, res, verdict>>
    /\ UNCHANGED writerVars

\* The cursor is on the item being appended, and the store s to it cannot be seen.
Unseen(c, s) == pos[c] = Len(list) + 1 /\ s \notin visible

\* The cursor's next pointer is read and leads to an item.
LoadItem(c) ==
    /\ pc[c] = "load"
    /\ pos[c] < Len(Chain)
    /\ pos' = [pos EXCEPT ![c] = pos[c] + 1]
    /\ pc' = [pc EXCEPT ![c] = "compare"]
    /\ UNCHANGED <<drop, want, res, verdict, due>>
    /\ UNCHANGED writerVars

\* Mutant: the walk counts to rules->length instead of stopping at the head.
LoadHeadByLength(c) ==
    /\ pc[c] = "load"
    /\ pos[c] >= length
    /\ res' = [res EXCEPT ![c] = 1]
    /\ pc' = [pc EXCEPT ![c] = "store"]
    /\ UNCHANGED <<drop, want, pos, verdict, due>>
    /\ UNCHANGED writerVars

\* Mutant: an empty table admits everything.
LoadHeadEmptyAllows(c) ==
    /\ pc[c] = "load"
    /\ pos[c] = Len(Chain)
    /\ ~Unseen(c, "next")
    /\ res' = [res EXCEPT ![c] = IF pos[c] = 0 THEN 0 ELSE 1]
    /\ pc' = [pc EXCEPT ![c] = "store"]
    /\ UNCHANGED <<drop, want, pos, verdict, due>>
    /\ UNCHANGED writerVars

\* The cursor's next pointer leads back to the head: no item matched, return 1.
LoadHead(c) ==
    /\ pc[c] = "load"
    /\ pos[c] = Len(Chain)
    /\ ~Unseen(c, "next")
    /\ res' = [res EXCEPT ![c] = 1]
    /\ pc' = [pc EXCEPT ![c] = "store"]
    /\ UNCHANGED <<drop, want, pos, verdict, due>>
    /\ UNCHANGED writerVars

\* strcmp(item->data, str): 0 ends the walk with 0, otherwise it goes on.
CompareItem(c) ==
    /\ pc[c] = "compare"
    /\ ~Unseen(c, "data")
    /\ IF Chain[pos[c]] = want[c]
       THEN /\ res' = [res EXCEPT ![c] = 0]
            /\ pc' = [pc EXCEPT ![c] = "store"]
       ELSE /\ pc' = [pc EXCEPT ![c] = "load"]
            /\ UNCHANGED res
    /\ UNCHANGED <<drop, want, pos, verdict, due>>
    /\ UNCHANGED writerVars

\* The walk follows a data or next pointer of the new item that still holds what
\* kmalloc returned: from here on the code's behaviour is undefined.
WildRead(c) ==
    /\ \/ pc[c] = "load" /\ Unseen(c, "next")
       \/ pc[c] = "compare" /\ Unseen(c, "data")
    /\ pc' = [pc EXCEPT ![c] = "wild"]
    /\ UNCHANGED <<drop, want, pos, res, verdict, due>>
    /\ UNCHANGED writerVars

\* drop = rules_for_each(...): the result goes to a global shared by all contexts.
StoreDrop(c) ==
    /\ pc[c] = "store"
    /\ drop' = res[c]
    /\ pc' = [pc EXCEPT ![c] = "test"]
    /\ UNCHANGED <<want, pos, res, verdict, due>>
    /\ UNCHANGED writerVars

\* What the test "drop == 0" sees: the value just stored, kept in a register by
\* an optimising compiler, or the global read again.
DropSeen(c) == IF ReloadDrop THEN drop ELSE res[c]

\* if (drop == 0) return 0; return 1
TestDrop(c) ==
    /\ pc[c] = "test"
    /\ verdict' = [verdict EXCEPT ![c] = IF DropSeen(c) = 0 THEN 0 ELSE 1]
    /\ pc' = [pc EXCEPT ![c] = "done"]
    /\ UNCHANGED <<drop, want, pos, res, due>>
    /\ UNCHANGED writerVars

\* The caller takes the verdict; need_drop's locals are gone.
Return(c) ==
    /\ pc[c] = "done"
    /\ pc' = [pc EXCEPT ![c] = "idle"]
    /\ want' = [want EXCEPT ![c] = AnyText]
    /\ pos' = [pos EXCEPT ![c] = 0]
    /\ res' = [res EXCEPT ![c] = 1]
    /\ verdict' = [verdict EXCEPT ![c] = 1]
    /\ due' = [due EXCEPT ![c] = FALSE]
    /\ UNCHANGED drop
    /\ UNCHANGED writerVars

ReaderStep(c) == \/ LoadItem(c)
                 \/ LoadHead(c)
                 \/ CompareItem(c)
                 \/ WildRead(c)
                 \/ StoreDrop(c)
                 \/ TestDrop(c)
                 \/ Return(c)
-----------------------------------------------------------------------------
Next == \/ \E t \in Text : ReceiveMsg(t)
        \/ WriterStep
        \/ \E c \in Ctx : \/ \E t \in Text : NeedDrop(c, t)
                          \/ ReaderStep(c)

Spec == Init /\ [][Next]_vars
-----------------------------------------------------------------------------
(* Properties.                                                             *)

\* Every variable keeps its type.
TypeOK ==
    /\ list \in Seq(Admissible) /\ Len(list) <= MaxRules
    /\ length \in 0 .. MaxRules
    /\ writer \in {"idle", "alloc", "publish", "count", "announce"}
    /\ adding \in Text
    /\ visible \subseteq Store
    /\ told \subseteq Admissible
    /\ drop \in {0, 1}
    /\ pc \in [Ctx -> {"idle", "load", "compare", "store", "test", "done", "wild"}]
    /\ want \in [Ctx -> Text]
    /\ pos \in [Ctx -> 0 .. MaxRules]
    /\ res \in [Ctx -> {0, 1}]
    /\ verdict \in [Ctx -> {0, 1}]
    /\ due \in [Ctx -> BOOLEAN]

\* No walk reads an item before its fields are set (rules_for_each against a
\* concurrent rule_push); true only where stores become visible in order.
NoWildRead == OrderedStores => \A c \in Ctx : pc[c] # "wild"

\* need_drop lets a packet pass only if its rule is in the table, provided the
\* test of drop sees the caller's own result.
AcceptedIsListed ==
    ~ReloadDrop =>
        \A c \in Ctx : pc[c] = "done" /\ verdict[c] = 0 => want[c] \in Elements(Chain)

\* need_drop never drops a packet whose rule had been announced to user space
\* before the check began, provided rule_push got its memory.
AnnouncedIsEnforced ==
    ~ReloadDrop /\ ~AllocMayFail =>
        \A c \in Ctx : pc[c] = "done" /\ due[c] => verdict[c] = 0

\* Default deny survives even a build that reads drop again after storing it: as
\* long as no rule was linked into the table, no context is told to accept.
EmptyTableDeniesAll ==
    Chain = <<>> => /\ drop = 1
                    /\ \A c \in Ctx : pc[c] = "done" => verdict[c] = 1

\* The counter my_rules.length is one behind the list exactly between
\* list_add_tail and length++, failed allocations included.
LengthFollowsList == length = Len(list) - (IF writer = "count" THEN 1 ELSE 0)

\* The list a walk can reach only grows, and only at its tail, so that a cursor
\* into it never dangles and no admitted rule is ever withdrawn.
OnlyAppends ==
    [][Len(Chain) <= Len(Chain') /\ \A i \in 1 .. Len(Chain) : Chain'[i] = Chain[i]]_vars

\* The table answers every walk as if atomically (see AllowList).
Phase(c) == CASE pc[c] = "idle" -> "quiet"
              [] pc[c] \in Walking \cup {"wild"} -> "asked"
              [] OTHER -> "answered"

AL == INSTANCE AllowList WITH allowed <- Elements(Chain),
                              phase <- [c \in Ctx |-> Phase(c)],
                              wanted <- want,
                              answer <- res

AnswersAtomically == AL!Spec
=============================================================================
