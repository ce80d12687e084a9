------------------------- MODULE PacketFilterProofs -------------------------
(***************************************************************************)
(* Theorems about RuleTable, for every number of contexts and rules and    *)
(* for every setting of the three build switches, and about PacketFilter,  *)
(* for any contexts, peers, sockets and rules and every build.             *)
(*                                                                         *)
(* The inductive invariant IInv adds to the type invariant what a walk has *)
(* already established (the items it moved over do not match) and what the *)
(* stages of receive_msg have established about the item being appended.   *)
(* Every step of the hooks is a step of the rule table or leaves it alone, *)
(* so IInv holds under the hooks too.  HookOK adds what a hook has         *)
(* established about the packet in its hands at each stage.                *)
(***************************************************************************)
EXTENDS PacketFilter, TLAPS
-----------------------------------------------------------------------------
(* The rule table.                                                         *)


\* What the stages of receive_msg establish.
WriterOK ==
    /\ writer # "idle" => adding \in Admissible
    /\ writer \in {"alloc", "publish"} => Len(list) < MaxRules
    /\ visible # {} => writer = "publish"
    /\ OrderedStores => /\ "next" \in visible => "data" \in visible
                        /\ "link" \in visible => {"data", "next"} \subseteq visible
    /\ ~AllocMayFail => /\ told \subseteq Elements(list)
                        /\ writer \in {"count", "announce"} => adding \in Elements(list)
    /\ LengthFollowsList

\* What a context in need_drop has established.
ReaderOK(c) ==
    /\ pos[c] <= Len(Chain)
    /\ pc[c] = "load" => \A i \in 1 .. pos[c] : Chain[i] # want[c]
    /\ pc[c] = "compare" => /\ pos[c] >= 1
                            /\ \A i \in 1 .. pos[c] - 1 : Chain[i] # want[c]
    /\ pc[c] \in {"store", "test", "done"} /\ res[c] = 0 => want[c] \in Elements(Chain)
    /\ due[c] => want[c] \in told
    /\ pc[c] \in {"store", "test", "done"} /\ due[c] /\ ~AllocMayFail => res[c] = 0
    /\ pc[c] = "done" /\ ~ReloadDrop => verdict[c] = res[c]
    /\ pc[c] = "wild" => ~OrderedStores
    /\ pc[c] = "done" /\ verdict[c] = 0 => Len(Chain) > 0

DropOK == drop = 0 => Len(Chain) > 0

IInv == TypeOK /\ WriterOK /\ (\A c \in Ctx : ReaderOK(c)) /\ DropOK

USE TextAssumption, BoundAssumption, SwitchAssumption
-----------------------------------------------------------------------------
\* Appending keeps the elements of a sequence and adds the appended one.
LEMMA ElementsOfAppend ==
    ASSUME NEW S, NEW s \in Seq(S), NEW e \in S
    PROVE  Elements(s) \subseteq Elements(Append(s, e)) /\ e \in Elements(Append(s, e))
<1> DEFINE a == Append(s, e)
<1>1. /\ \A i \in 1 .. Len(s) : i \in 1 .. Len(a) /\ a[i] = s[i]
      /\ Len(s) + 1 \in 1 .. Len(a) /\ a[Len(s) + 1] = e
  OBVIOUS
<1> HIDE DEF a
<1>2. Elements(s) \subseteq Elements(a)
  BY <1>1 DEF Elements
<1>3. e \in Elements(a)
  BY <1>1 DEF Elements
<1> QED
  BY <1>2, <1>3 DEF a

\* The reachable list is a sequence of rules; its length is the length of the
\* completed list, or one more while the new item is linked but not complete.
LEMMA ChainType ==
    ASSUME TypeOK, WriterOK
    PROVE  /\ Chain \in Seq(Admissible)
           /\ Len(Chain) \in Nat
           /\ Len(Chain) <= MaxRules
           /\ Len(Chain) = Len(list) + (IF "link" \in visible THEN 1 ELSE 0)
           /\ \A i \in 1 .. Len(list) : Chain[i] = list[i]
BY DEF TypeOK, WriterOK, Chain

\* Every step leaves the reachable list alone or appends one rule to it.
LEMMA ChainGrows ==
    ASSUME TypeOK, WriterOK, [Next]_vars
    PROVE  Chain' = Chain \/ Chain' = Append(Chain, adding)
<1>1. list \in Seq(Admissible) /\ visible \subseteq Store
  BY DEF TypeOK
<1>2. CASE UNCHANGED <<list, visible, adding>>
  BY <1>2 DEF Chain
<1>3. CASE \E t \in Text : ReceiveMsg(t)
  BY <1>3 DEF ReceiveMsg, WriterOK, Chain
<1>4. CASE \E s \in Store : PublishStore(s)
  BY <1>4 DEF PublishStore, Chain
<1>5. CASE ItemComplete
  BY <1>5 DEF ItemComplete, Chain, Store
<1> QED
  BY <1>2, <1>3, <1>4, <1>5
     DEF Next, WriterStep, ReaderStep, vars, writerVars, AllocFails, AllocItem, CountItem,
         Announce, NeedDrop, LoadItem, LoadHead, CompareItem, WildRead, StoreDrop,
         TestDrop, Return

\* Hence no step takes a rule away from a walk.
LEMMA ChainKeeps ==
    ASSUME TypeOK, WriterOK, [Next]_vars
    PROVE  /\ Len(Chain') \in Nat
           /\ Len(Chain) <= Len(Chain')
           /\ \A i \in 1 .. Len(Chain) : Chain'[i] = Chain[i]
           /\ Elements(Chain) \subseteq Elements(Chain')
<1>1. Chain \in Seq(Admissible) /\ Len(Chain) \in Nat
  BY ChainType
<1>2. adding \in Text
  BY DEF TypeOK
<1>3. Chain \in Seq(Text)
  BY <1>1
<1>4. /\ Len(Chain') \in Nat
      /\ Len(Chain) <= Len(Chain')
      /\ \A i \in 1 .. Len(Chain) : Chain'[i] = Chain[i]
  BY <1>2, <1>3, ChainGrows
<1> QED
  BY <1>1, <1>4 DEF Elements
-----------------------------------------------------------------------------
LEMMA AnyTextType == AnyText \in Text
BY DEF AnyText

LEMMA InitIInv == Init => IInv
BY AnyTextType DEF Init, IInv, TypeOK, WriterOK, ReaderOK, DropOK, LengthFollowsList,
                   Chain, Store, Elements

\* The steps of receive_msg keep the types and what its stages establish.
LEMMA WriterKeepsWriterOK ==
    ASSUME TypeOK, WriterOK, (\E t \in Text : ReceiveMsg(t)) \/ WriterStep
    PROVE  TypeOK' /\ WriterOK'
<1> USE DEF TypeOK, WriterOK, LengthFollowsList, Store, readerVars
<1>1. CASE \E t \in Text : ReceiveMsg(t)
  BY <1>1 DEF ReceiveMsg, CheckRule
<1>2. CASE AllocFails
  BY <1>2 DEF AllocFails
<1>3. CASE AllocItem
  BY <1>3 DEF AllocItem
<1>4. CASE \E s \in Store : PublishStore(s)
  BY <1>4 DEF PublishStore, MayBecomeVisible
<1>5. CASE ItemComplete
  <2>1. /\ list' = Append(list, adding) /\ Len(list') = Len(list) + 1
        /\ list' \in Seq(Admissible)
    BY <1>5 DEF ItemComplete
  <2>2. Elements(list) \subseteq Elements(list') /\ adding \in Elements(list')
    BY <2>1, ElementsOfAppend
  <2> QED
    BY <1>5, <2>1, <2>2 DEF ItemComplete
<1>6. CASE CountItem
  BY <1>6 DEF CountItem
<1>7. CASE Announce
  BY <1>7 DEF Announce
<1> QED
  BY <1>1, <1>2, <1>3, <1>4, <1>5, <1>6, <1>7 DEF WriterStep

\* What a reader knows survives the steps that leave its variables alone.
LEMMA ReaderStable ==
    ASSUME TypeOK, WriterOK, [Next]_vars, TypeOK', NEW c \in Ctx, ReaderOK(c),
           told \subseteq told',
           pc'[c] = pc[c], want'[c] = want[c], pos'[c] = pos[c], res'[c] = res[c],
           verdict'[c] = verdict[c], due'[c] = due[c]
    PROVE  ReaderOK(c)'
<1>1. pos[c] \in Nat /\ Len(Chain) \in Nat
  BY ChainType DEF TypeOK
<1> QED
  BY <1>1, ChainKeeps DEF ReaderOK

\* A context's own step keeps the types and establishes what it should.
LEMMA ReaderKeepsTypes ==
    ASSUME IInv, NEW c \in Ctx, (\E t \in Text : NeedDrop(c, t)) \/ ReaderStep(c)
    PROVE  TypeOK' /\ WriterOK' /\ Chain' = Chain
<1>1. Len(Chain) \in Nat /\ Len(Chain) <= MaxRules
  BY ChainType DEF IInv
<1>2. TypeOK'
  <2> USE DEF IInv, TypeOK, writerVars
  <2>1. CASE \E t \in Text : NeedDrop(c, t)
    BY <2>1 DEF NeedDrop
  <2>2. CASE LoadItem(c)
    <3>1. pos[c] + 1 \in 0 .. MaxRules
      BY <1>1, <2>2 DEF LoadItem
    <3> QED
      BY <2>2, <3>1 DEF LoadItem
  <2>3. CASE LoadHead(c)
    BY <2>3 DEF LoadHead
  <2>4. CASE CompareItem(c)
    BY <2>4 DEF CompareItem
  <2>5. CASE WildRead(c)
    BY <2>5 DEF WildRead
  <2>6. CASE StoreDrop(c)
    BY <2>6 DEF StoreDrop
  <2>7. CASE TestDrop(c)
    BY <2>7 DEF TestDrop
  <2>8. CASE Return(c)
    BY <2>8, AnyTextType DEF Return
  <2> QED
    BY <2>1, <2>2, <2>3, <2>4, <2>5, <2>6, <2>7, <2>8 DEF ReaderStep
<1>3. UNCHANGED <<list, length, writer, adding, visible, told>>
  BY DEF ReaderStep, writerVars, NeedDrop, LoadItem, LoadHead, CompareItem, WildRead,
         StoreDrop, TestDrop, Return
<1> QED
  BY <1>2, <1>3 DEF IInv, WriterOK, Chain, LengthFollowsList
-----------------------------------------------------------------------------
\* A context's own step establishes what the context should know afterwards.
LEMMA ReaderKeepsReaderOK ==
    ASSUME IInv, NEW c \in Ctx, (\E t \in Text : NeedDrop(c, t)) \/ ReaderStep(c)
    PROVE  ReaderOK(c)' /\ DropOK'
<1>1. TypeOK' /\ WriterOK' /\ Chain' = Chain
  BY ReaderKeepsTypes
<1>2. /\ Len(Chain) \in Nat
      /\ Len(Chain) = Len(list) + (IF "link" \in visible THEN 1 ELSE 0)
      /\ \A i \in 1 .. Len(list) : Chain[i] = list[i]
  BY ChainType DEF IInv
<1>3. ~AllocMayFail => told \subseteq Elements(Chain)
  <2>1. Elements(list) \subseteq Elements(Chain)
    BY <1>2 DEF Elements, IInv, TypeOK
  <2> QED
    BY <2>1 DEF IInv, WriterOK
<1>4. TypeOK /\ WriterOK /\ ReaderOK(c) /\ DropOK
  BY DEF IInv
<1>5. Elements(Chain) # {} => Len(Chain) > 0
  BY <1>2 DEF Elements
<1>6. CASE \E t \in Text : NeedDrop(c, t)
  <2> PICK t \in Text : NeedDrop(c, t)
    BY <1>6
  <2>1. /\ pc'[c] = "load" /\ pos'[c] = 0 /\ want'[c] = t /\ (due'[c] => t \in told)
        /\ told' = told /\ drop' = drop
    BY <1>4 DEF NeedDrop, TypeOK, writerVars
  <2> QED
    BY <1>1, <1>2, <1>4, <2>1 DEF ReaderOK, DropOK
<1>7. CASE LoadItem(c)
  BY <1>1, <1>2, <1>4, <1>7 DEF LoadItem, ReaderOK, DropOK, TypeOK, writerVars
<1>8. CASE LoadHead(c)
  <2>1. want[c] \notin Elements(Chain)
    BY <1>2, <1>4, <1>8 DEF LoadHead, ReaderOK, Elements
  <2> QED
    BY <1>1, <1>2, <1>3, <1>4, <1>8, <2>1
       DEF LoadHead, ReaderOK, DropOK, TypeOK, writerVars
<1>9. CASE CompareItem(c)
  <2>1. pos[c] \in 1 .. Len(Chain)
    BY <1>2, <1>4, <1>9 DEF CompareItem, ReaderOK, TypeOK
  <2>2. Chain[pos[c]] \in Elements(Chain)
    BY <2>1 DEF Elements
  <2> QED
    BY <1>1, <1>2, <1>4, <1>9, <2>1, <2>2
       DEF CompareItem, ReaderOK, DropOK, TypeOK, writerVars
<1>10. CASE WildRead(c)
  BY <1>1, <1>2, <1>4, <1>10
     DEF WildRead, Unseen, ReaderOK, DropOK, TypeOK, WriterOK, writerVars
<1>11. CASE StoreDrop(c)
  BY <1>1, <1>2, <1>4, <1>5, <1>11 DEF StoreDrop, ReaderOK, DropOK, TypeOK, writerVars
<1>12. CASE TestDrop(c)
  BY <1>1, <1>2, <1>4, <1>5, <1>12
     DEF TestDrop, DropSeen, ReaderOK, DropOK, TypeOK, writerVars
<1>13. CASE Return(c)
  BY <1>1, <1>2, <1>4, <1>13, AnyTextType DEF Return, ReaderOK, DropOK, TypeOK, writerVars
<1> QED
  BY <1>6, <1>7, <1>8, <1>9, <1>10, <1>11, <1>12, <1>13 DEF ReaderStep

LEMMA NextIInv == IInv /\ [Next]_vars => IInv'
<1> SUFFICES ASSUME IInv, [Next]_vars PROVE IInv'
  OBVIOUS
<1>1. CASE (\E t \in Text : ReceiveMsg(t)) \/ WriterStep
  <2>1. TypeOK' /\ WriterOK'
    BY <1>1, WriterKeepsWriterOK DEF IInv
  <2>2. UNCHANGED readerVars /\ told \subseteq told'
    BY <1>1 DEF ReceiveMsg, WriterStep, AllocFails, AllocItem, PublishStore, ItemComplete,
                CountItem, Announce
  <2>3. ASSUME NEW c \in Ctx PROVE ReaderOK(c)'
    BY <2>1, <2>2, ReaderStable DEF IInv, readerVars
  <2>4. DropOK'
    BY <2>2, ChainKeeps, ChainType DEF IInv, DropOK, readerVars
  <2> QED
    BY <2>1, <2>3, <2>4 DEF IInv
<1>2. CASE \E c \in Ctx : (\E t \in Text : NeedDrop(c, t)) \/ ReaderStep(c)
  <2> PICK c \in Ctx : (\E t \in Text : NeedDrop(c, t)) \/ ReaderStep(c)
    BY <1>2
  <2>1. TypeOK' /\ WriterOK' /\ ReaderOK(c)' /\ DropOK'
    BY ReaderKeepsTypes, ReaderKeepsReaderOK
  <2>2. ASSUME NEW d \in Ctx, d # c PROVE ReaderOK(d)'
    <3>1. /\ pc'[d] = pc[d] /\ want'[d] = want[d] /\ pos'[d] = pos[d]
          /\ res'[d] = res[d] /\ verdict'[d] = verdict[d] /\ due'[d] = due[d]
          /\ told' = told
      BY <2>2 DEF IInv, TypeOK, ReaderStep, writerVars, NeedDrop, LoadItem, LoadHead,
                  CompareItem, WildRead, StoreDrop, TestDrop, Return
    <3> QED
      BY <2>1, <3>1, ReaderStable DEF IInv
  <2> QED
    BY <2>1, <2>2 DEF IInv
<1>3. CASE UNCHANGED vars
  BY <1>3 DEF vars, IInv, TypeOK, WriterOK, ReaderOK, DropOK, LengthFollowsList, Chain
<1> QED
  BY <1>1, <1>2, <1>3 DEF Next

THEOREM Invariance == Spec => []IInv
BY InitIInv, NextIInv, PTL DEF Spec
-----------------------------------------------------------------------------
\* Every variable of the table, of receive_msg and of need_drop keeps its type.
THEOREM TypeCorrect == Spec => []TypeOK
BY Invariance, PTL DEF IInv

\* my_rules.length is behind the list only between list_add_tail and length++.
THEOREM LengthCorrect == Spec => []LengthFollowsList
<1>1. IInv => LengthFollowsList
  BY DEF IInv, WriterOK
<1> QED
  BY <1>1, Invariance, PTL

\* rules_for_each never touches a half-built item if stores are seen in order.
THEOREM NoWildReadHolds == Spec => []NoWildRead
<1>1. IInv => NoWildRead
  BY DEF IInv, ReaderOK, NoWildRead
<1> QED
  BY <1>1, Invariance, PTL

\* need_drop accepts only what the table lists.
THEOREM AcceptanceSound == Spec => []AcceptedIsListed
<1>1. IInv => AcceptedIsListed
  BY DEF IInv, ReaderOK, AcceptedIsListed
<1> QED
  BY <1>1, Invariance, PTL

\* need_drop accepts whatever had been announced before the check.
THEOREM AnnouncementSound == Spec => []AnnouncedIsEnforced
<1>1. IInv => AnnouncedIsEnforced
  BY DEF IInv, ReaderOK, AnnouncedIsEnforced
<1> QED
  BY <1>1, Invariance, PTL

\* With an empty table everything is dropped, even if drop is read again.
THEOREM DefaultDeny == Spec => []EmptyTableDeniesAll
<1>1. ASSUME IInv, Chain = <<>> PROVE drop = 1 /\ \A c \in Ctx : pc[c] = "done" => verdict[c] = 1
  <2>1. Len(Chain) = 0
    BY <1>1
  <2> QED
    BY <1>1, <2>1 DEF IInv, TypeOK, ReaderOK, DropOK
<1>2. IInv => EmptyTableDeniesAll
  BY <1>1 DEF EmptyTableDeniesAll
<1> QED
  BY <1>2, Invariance, PTL

\* The list a walk can reach only grows at its tail.
THEOREM AppendOnly == Spec => OnlyAppends
<1>1. IInv /\ [Next]_vars =>
        [Len(Chain) <= Len(Chain') /\ \A i \in 1 .. Len(Chain) : Chain'[i] = Chain[i]]_vars
  BY ChainKeeps DEF IInv
<1> QED
  BY <1>1, Invariance, PTL DEF Spec, OnlyAppends
-----------------------------------------------------------------------------
(* RuleTable implements AllowList: a walk answers as if in one instant, the *)
(* instant it matches an item or reads the tail's pointer to the head.      *)

LEMMA InitRefines == Init => AL!Init
<1> SUFFICES ASSUME Init PROVE AL!Init
  OBVIOUS
<1>1. Chain = <<>> /\ Len(Chain) = 0
  BY DEF Init, Chain
<1>2. Elements(Chain) = {}
  BY <1>1 DEF Elements
<1>3. \A c \in Ctx : Phase(c) = "quiet"
  BY DEF Init, Phase, Walking
<1> QED
  BY <1>2, <1>3 DEF Init, AL!Init, AL!AnyText, AnyText

\* Appends map to Allow (when the link becomes visible) or to nothing.
LEMMA WriterRefines ==
    ASSUME IInv, (\E t \in Text : ReceiveMsg(t)) \/ WriterStep
    PROVE  [AL!Next]_(AL!vars)
<1>1. TypeOK /\ WriterOK /\ Chain \in Seq(Admissible) /\ adding \in Text
  BY ChainType DEF IInv, TypeOK
<1>2. UNCHANGED readerVars
  BY DEF ReceiveMsg, WriterStep, AllocFails, AllocItem, PublishStore, ItemComplete,
         CountItem, Announce
<1>3. UNCHANGED <<[c \in Ctx |-> Phase(c)], want, res>>
  BY <1>2 DEF readerVars, Phase
<1>4. [Next]_vars
  BY DEF Next
<1>5. CASE Chain' = Chain
  BY <1>3, <1>5 DEF AL!vars
<1>6. CASE Chain' = Append(Chain, adding)
  <2>1. Elements(Chain') = Elements(Chain) \cup {adding}
    <3> DEFINE s == Chain
               a == Append(s, adding)
    <3>1. s \in Seq(Text)
      BY <1>1
    <3>2. /\ Len(s) \in Nat
          /\ Len(a) = Len(s) + 1
          /\ \A i \in 1 .. Len(s) : a[i] = s[i]
          /\ a[Len(s) + 1] = adding
      BY <1>1, <3>1
    <3> HIDE DEF s, a
    <3>3. \A i \in 1 .. Len(a) : i \in 1 .. Len(s) \/ i = Len(s) + 1
      BY <3>2
    <3>4. \A i \in 1 .. Len(s) : i \in 1 .. Len(a)
      BY <3>2
    <3>5. Len(s) + 1 \in 1 .. Len(a)
      BY <3>2
    <3>6. Elements(a) \subseteq Elements(s) \cup {adding}
      BY <3>2, <3>3 DEF Elements
    <3>7. Elements(s) \subseteq Elements(a)
      BY <3>2, <3>4 DEF Elements
    <3>8. adding \in Elements(a)
      BY <3>2, <3>5 DEF Elements
    <3> QED
      BY <1>6, <3>6, <3>7, <3>8 DEF a, s
  <2>2. AL!Allow(adding)
    BY <1>3, <2>1 DEF AL!Allow
  <2> QED
    BY <1>1, <2>2 DEF AL!Next
<1> QED
  BY <1>1, <1>4, <1>5, <1>6, ChainGrows

\* A context's steps map to Ask, Answer, Finish or nothing.
LEMMA ReaderRefines ==
    ASSUME IInv, NEW c \in Ctx, (\E t \in Text : NeedDrop(c, t)) \/ ReaderStep(c)
    PROVE  [AL!Next]_(AL!vars)
<1>1. Chain' = Chain /\ Elements(Chain') = Elements(Chain)
  BY ReaderKeepsTypes
<1>2. TypeOK /\ WriterOK /\ ReaderOK(c)
  BY DEF IInv
<1>3. /\ Len(Chain) \in Nat
      /\ \A i \in 1 .. Len(Chain) : Chain[i] \in Elements(Chain)
  BY ChainType, <1>2 DEF Elements
<1>4. CASE \E t \in Text : NeedDrop(c, t)
  <2> PICK t \in Text : NeedDrop(c, t)
    BY <1>4
  <2>1. AL!Ask(c, t)
    BY <1>1, <1>2 DEF NeedDrop, AL!Ask, Phase, TypeOK, Walking
  <2> QED
    BY <2>1 DEF AL!Next
<1>5. CASE LoadItem(c) \/ WildRead(c) \/ StoreDrop(c) \/ TestDrop(c)
  <2>1. [d \in Ctx |-> Phase(d)]' = [d \in Ctx |-> Phase(d)] /\ want' = want /\ res' = res
    BY <1>2, <1>5 DEF LoadItem, WildRead, StoreDrop, TestDrop, Phase, TypeOK, Walking
  <2> QED
    BY <1>1, <2>1 DEF AL!vars
<1>6. CASE LoadHead(c)
  <2>1. want[c] \notin Elements(Chain)
    BY <1>2, <1>3, <1>6 DEF LoadHead, ReaderOK, Elements
  <2>2. AL!Answer(c)
    BY <1>1, <1>2, <1>6, <2>1 DEF LoadHead, AL!Answer, Phase, TypeOK, Walking
  <2> QED
    BY <2>2 DEF AL!Next
<1>7. CASE CompareItem(c) /\ Chain[pos[c]] = want[c]
  <2>1. want[c] \in Elements(Chain)
    BY <1>2, <1>3, <1>7 DEF CompareItem, ReaderOK, TypeOK
  <2>2. AL!Answer(c)
    BY <1>1, <1>2, <1>7, <2>1 DEF CompareItem, AL!Answer, Phase, TypeOK, Walking
  <2> QED
    BY <2>2 DEF AL!Next
<1>8. CASE CompareItem(c) /\ Chain[pos[c]] # want[c]
  <2>1. [d \in Ctx |-> Phase(d)]' = [d \in Ctx |-> Phase(d)] /\ want' = want /\ res' = res
    BY <1>2, <1>8 DEF CompareItem, Phase, TypeOK, Walking
  <2> QED
    BY <1>1, <2>1 DEF AL!vars
<1>9. CASE Return(c)
  <2>1. AL!Finish(c)
    BY <1>1, <1>2, <1>9 DEF Return, AL!Finish, AL!AnyText, AnyText, Phase, TypeOK, Walking
  <2> QED
    BY <2>1 DEF AL!Next
<1> QED
  BY <1>4, <1>5, <1>6, <1>7, <1>8, <1>9 DEF ReaderStep

\* Walks without a lock, in any store order, answer as AllowList does.
THEOREM Refinement == Spec => AnswersAtomically
<1>1. IInv /\ [Next]_vars => [AL!Next]_(AL!vars)
  <2> SUFFICES ASSUME IInv, [Next]_vars PROVE [AL!Next]_(AL!vars)
    OBVIOUS
  <2>1. CASE UNCHANGED vars
    BY <2>1 DEF vars, AL!vars, Chain, Phase
  <2>2. CASE (\E t \in Text : ReceiveMsg(t)) \/ WriterStep
    BY <2>2, WriterRefines
  <2>3. CASE \E c \in Ctx : (\E t \in Text : NeedDrop(c, t)) \/ ReaderStep(c)
    BY <2>3, ReaderRefines
  <2> QED
    BY <2>1, <2>2, <2>3 DEF Next
<1> QED
  BY <1>1, InitRefines, Invariance, PTL DEF Spec, AnswersAtomically, AL!Spec

-----------------------------------------------------------------------------
(* The packet hooks.                                                       *)


\* The table has accepted a received packet that needed a rule.
FrameListed(f) == /\ f.kind = "flow" => Incoming(f.from) \in Elements(Chain)
                  /\ f.kind # "ICMP"

\* The table lists the peer that the check of c's send has found.
FoundListed(c) == Outgoing(found[c]) \in Elements(Chain)

\* p is the peer that was found, or the difference is one that SendsAreChecked names.
Kept(c, p) == p = found[c] \/ found[c] = Nobody \/ c \in left

ReceiveOK(c) ==
    /\ job[c] \in Frame
    /\ fate[c] # "sent"
    /\ stage[c] = "check" => want[c] \in FrameTexts(job[c])
    /\ ~ReloadDrop => /\ stage[c] \in {"report", "act"} /\ decision[c] = 0 => FrameListed(job[c])
                      /\ fate[c] = "passed" => FrameListed(job[c])
    /\ Chain = <<>> => /\ stage[c] \in {"report", "act"} /\ decision[c] = 0
                              => job[c].kind = "ARP"
                       /\ fate[c] = "passed" => job[c].kind = "ARP"

SendOK(c) ==
    /\ fate[c] # "passed"
    /\ stage[c] # "idle" \/ fate[c] = "sent" => job[c] \in SendCall
    /\ stage[c] = "check" => want[c] = Outgoing(found[c])
    /\ ~ReloadDrop => /\ stage[c] \in {"report", "act"} /\ decision[c] = 0 => FoundListed(c)
                      /\ fate[c] = "sent" => FoundListed(c)
    /\ stage[c] # "idle" => Kept(c, peer[job[c].sock])
    /\ fate[c] = "sent" /\ job[c].sock \in Stream => Kept(c, dest[c])
    /\ Chain = <<>> => /\ stage[c] \in {"report", "act"} => decision[c] = 1
                       /\ fate[c] # "sent"

\* The report of a packet bears the verdict that decides its fate.
ReportOK(c) ==
    /\ stage[c] = "act" => report[c] \in {<<decision[c]>>, <<>>}
    /\ fate[c] # "none" => stage[c] = "idle"
    /\ fate[c] \in {"passed", "sent"} => report[c] \in {<<0>>, <<>>}
    /\ fate[c] \in {"dropped", "refused"} => report[c] \in {<<1>>, <<>>}

HookOK(c) == ReportOK(c) /\ IF c \in Softirq THEN ReceiveOK(c) ELSE SendOK(c)

\* Types of the variables of the hooks.
HookTypeOK ==
    /\ peer \in [Sock -> Peer \cup {Nobody}]
    /\ stage \in [Ctx -> {"idle", "check", "report", "act"}]
    /\ job \in [Ctx -> Frame \cup SendCall]
    /\ decision \in [Ctx -> {0, 1}]
    /\ report \in [Ctx -> {<<0>>, <<1>>, <<>>}]
    /\ fate \in [Ctx -> Fate]
    /\ dest \in [Ctx -> Peer \cup {Nobody}]
    /\ found \in [Ctx -> Peer \cup {Nobody}]
    /\ left \subseteq Ctx
    /\ \A c \in Ctx : stage[c] = "check" <=> pc[c] # "idle"

FilterIInv == IInv /\ HookTypeOK /\ \A c \in Ctx : HookOK(c)

USE HookAssumption, TextAssumption, BoundAssumption, SwitchAssumption
-----------------------------------------------------------------------------
\* The texts that the hooks hand to need_drop are texts of the table.
LEMMA HookTexts ==
    /\ \A p \in Peer : Incoming(p) \in Text
    /\ \A p \in Peer \cup {Nobody} : Outgoing(p) \in Text
    /\ \A f \in Frame : FrameTexts(f) \subseteq Text
<1>1. /\ \A p \in Peer : Incoming(p) \in Text
      /\ \A p \in Peer \cup {Nobody} : Outgoing(p) \in Text
  <2>1. \A p \in Peer : Incoming(p) \in FlowText
    BY DEF FlowText
  <2>2. \A p \in Peer \cup {Nobody} : Outgoing(p) \in FlowText
    BY DEF FlowText
  <2> QED
    BY <2>1, <2>2
<1> QED
  BY <1>1 DEF FrameTexts, Frame

\* A step of the hooks is one of the table or leaves it alone.
LEMMA StepIsTableStep ==
    ASSUME HookTypeOK, [FilterNext]_allVars
    PROVE  [Next]_vars
<1>1. CASE UNCHANGED allVars
  BY <1>1 DEF allVars
<1>2. CASE (WriterStep \/ \E t \in Text : ReceiveMsg(t)) /\ UNCHANGED hookVars
  BY <1>2 DEF Next
<1>3. CASE \E s \in Sock, p \in Peer \cup {Nobody} : Repeer(s, p)
  BY <1>3 DEF Repeer
<1>4. ASSUME NEW c \in Ctx, NEW f \in Frame, GroReceive(c, f)
      PROVE  [Next]_vars
  BY <1>4, HookTexts DEF GroReceive, Next
<1>5. ASSUME NEW c \in Ctx, NEW m \in SendCall, Sendmsg(c, m) \/ AutobindFails(c, m)
      PROVE  [Next]_vars
  <2>1. Outgoing(peer[m.sock]) \in Text
    BY HookTexts DEF HookTypeOK, SendCall
  <2> QED
    BY <1>5, <2>1 DEF Sendmsg, AutobindFails, Next
<1>6. ASSUME NEW c \in Ctx, HookStep(c)
      PROVE  [Next]_vars
  BY <1>6 DEF HookStep, TableStep, Checked, Report, FinishReceive, FinishSend, Next, ReaderStep
<1> QED
  BY <1>1, <1>2, <1>3, <1>4, <1>5, <1>6 DEF FilterNext, Connect, Shutdown

\* Hence the table's invariant is kept, and its list only grows.
LEMMA TableKept ==
    ASSUME FilterIInv, [FilterNext]_allVars
    PROVE  /\ IInv'
           /\ Elements(Chain) \subseteq Elements(Chain')
           /\ Chain' = <<>> => Chain = <<>>
<1>1. [Next]_vars
  BY StepIsTableStep DEF FilterIInv
<1>2. TypeOK /\ WriterOK
  BY DEF FilterIInv, IInv
<1>3. Elements(Chain) \subseteq Elements(Chain') /\ Len(Chain) <= Len(Chain')
  BY <1>1, <1>2, ChainKeeps
<1>4. Chain \in Seq(Admissible) /\ Len(Chain) \in Nat
  BY <1>2, ChainType
<1> QED
  BY <1>1, <1>3, <1>4, NextIInv DEF FilterIInv
-----------------------------------------------------------------------------
LEMMA InitFilterIInv == FilterInit => FilterIInv
<1> SUFFICES ASSUME FilterInit PROVE FilterIInv
  OBVIOUS
<1>1. IInv
  BY InitIInv DEF FilterInit
<1>2. (CHOOSE f \in Frame : f.kind = "ARP") \in Frame
  <2> PICK p \in Peer : TRUE
    BY DEF HookAssumption
  <2>1. [kind |-> "ARP", from |-> p] \in Frame
    BY DEF Frame, FrameKind
  <2> QED
    BY <2>1
<1>3. HookTypeOK
  BY <1>2 DEF FilterInit, Init, HookTypeOK, Fate
<1>4. ASSUME NEW c \in Ctx PROVE HookOK(c)
  BY <1>2, <1>4 DEF FilterInit, HookOK, ReportOK, ReceiveOK, SendOK
<1> QED
  BY <1>1, <1>3, <1>4 DEF FilterIInv

\* The steps of the hooks keep the types.
LEMMA HookTypesKept ==
    ASSUME FilterIInv, [FilterNext]_allVars
    PROVE  HookTypeOK'
<1> USE DEF FilterIInv, HookTypeOK
<1>1. CASE UNCHANGED allVars
  BY <1>1 DEF allVars, hookVars, vars
<1>2. CASE (WriterStep \/ \E t \in Text : ReceiveMsg(t)) /\ UNCHANGED hookVars
  <2>1. UNCHANGED readerVars
    BY <1>2 DEF ReceiveMsg, WriterStep, AllocFails, AllocItem, PublishStore, ItemComplete,
                CountItem, Announce
  <2> QED
    BY <1>2, <2>1 DEF hookVars, readerVars
<1>3. CASE \E s \in Sock, p \in Peer \cup {Nobody} : Repeer(s, p)
  BY <1>3 DEF Repeer, vars
<1>4. ASSUME NEW c \in Ctx, NEW f \in Frame, GroReceive(c, f)
      PROVE  HookTypeOK'
  <2>1. /\ job' = [job EXCEPT ![c] = f] /\ fate' = [fate EXCEPT ![c] = "none"]
        /\ report' = [report EXCEPT ![c] = <<>>] /\ UNCHANGED <<peer, dest, found, left>>
    BY <1>4 DEF GroReceive
  <2>2. CASE Unchecked(f)
    BY <1>4, <2>1, <2>2 DEF GroReceive, vars, Fate
  <2>3. CASE ~Unchecked(f)
    <3>1. /\ stage' = [stage EXCEPT ![c] = "check"] /\ decision' = [decision EXCEPT ![c] = 1]
          /\ pc' = [pc EXCEPT ![c] = "load"]
      BY <1>4, <2>3 DEF GroReceive, NeedDrop
    <3> QED
      BY <2>1, <3>1 DEF Fate, IInv, TypeOK
  <2> QED
    BY <2>2, <2>3
<1>5. ASSUME NEW c \in Ctx, NEW m \in SendCall, Sendmsg(c, m)
      PROVE  HookTypeOK'
  <2>1. peer[m.sock] \in Peer \cup {Nobody}
    BY DEF SendCall
  <2>2. /\ found' \in [Ctx -> Peer \cup {Nobody}] /\ left' \subseteq Ctx
        /\ dest' \in [Ctx -> Peer \cup {Nobody}]
    BY <1>5, <2>1 DEF Sendmsg
  <2> QED
    BY <1>5, <2>2 DEF Sendmsg, NeedDrop, IInv, TypeOK, Fate
<1>6. ASSUME NEW c \in Ctx, NEW m \in SendCall, AutobindFails(c, m)
      PROVE  HookTypeOK'
  BY <1>6 DEF AutobindFails, vars, Fate
<1>7. ASSUME NEW c \in Ctx, TableStep(c), UNCHANGED hookVars
      PROVE  HookTypeOK'
  BY <1>7 DEF TableStep, LoadItem, LoadHead, CompareItem, WildRead, StoreDrop, TestDrop,
              hookVars, IInv, TypeOK
<1>8. ASSUME NEW c \in Ctx, Checked(c)
      PROVE  HookTypeOK'
  BY <1>8 DEF Checked, Return, IInv, TypeOK
<1>9. ASSUME NEW c \in Ctx, Report(c)
      PROVE  HookTypeOK'
  BY <1>9 DEF Report, ReportedBit, vars
<1>10. ASSUME NEW c \in Ctx, FinishReceive(c)
       PROVE  HookTypeOK'
  BY <1>10 DEF FinishReceive, vars, Fate
<1>11. ASSUME NEW c \in Ctx, FinishSend(c)
       PROVE  HookTypeOK'
  <2>1. job[c] \in SendCall
    BY <1>11 DEF FinishSend, HookOK, SendOK
  <2>2. Target(job[c]) \in Peer \cup {Nobody}
    BY <2>1 DEF Target, SendCall
  <2>3. /\ dest' \in [Ctx -> Peer \cup {Nobody}]
        /\ found' \in [Ctx -> Peer \cup {Nobody}] /\ left' \subseteq Ctx
    BY <1>11, <2>2 DEF FinishSend
  <2> QED
    BY <1>11, <2>3 DEF FinishSend, vars, Fate
<1> QED
  BY <1>1, <1>2, <1>3, <1>4, <1>5, <1>6, <1>7, <1>8, <1>9, <1>10, <1>11
     DEF FilterNext, HookStep, Connect, Shutdown
-----------------------------------------------------------------------------
\* What a hook knows of its packet survives the steps of other contexts.
LEMMA HookStable ==
    ASSUME FilterIInv, [FilterNext]_allVars, NEW c \in Ctx,
           stage'[c] = stage[c], job'[c] = job[c], decision'[c] = decision[c],
           report'[c] = report[c], fate'[c] = fate[c], dest'[c] = dest[c],
           stage[c] = "check" => want'[c] = want[c],
           found'[c] = found[c], c \in left => c \in left',
           c \notin Softirq /\ stage[c] # "idle" =>
               \/ peer'[job[c].sock] = peer[job[c].sock] \/ peer[job[c].sock] = Nobody
               \/ c \in left'
    PROVE  HookOK(c)'
<1>1. Elements(Chain) \subseteq Elements(Chain') /\ (Chain' = <<>> => Chain = <<>>)
  BY TableKept
<1>2. HookOK(c)
  BY DEF FilterIInv
<1>3. ReportOK(c)'
  BY <1>2 DEF HookOK, ReportOK
<1>4. CASE c \in Softirq
  BY <1>1, <1>2, <1>3, <1>4 DEF HookOK, ReceiveOK, FrameListed
<1>5. CASE c \notin Softirq
  BY <1>1, <1>2, <1>3, <1>5 DEF HookOK, SendOK, FoundListed, Kept
<1> QED
  BY <1>4, <1>5

\* A context that takes need_drop's verdict knows why the packet may pass.
LEMMA CheckedKeepsHookOK ==
    ASSUME FilterIInv, NEW c \in Ctx, Checked(c)
    PROVE  HookOK(c)'
<1>1. /\ pc[c] = "done" /\ stage[c] = "check" /\ stage'[c] = "report"
      /\ decision'[c] = verdict[c] /\ verdict[c] \in {0, 1}
      /\ UNCHANGED <<peer, job, report, fate, dest, found, left, list, visible, adding>>
  BY DEF Checked, Return, FilterIInv, HookTypeOK, IInv, TypeOK, writerVars
<1>2. Chain' = Chain
  BY <1>1 DEF Chain
<1>3. HookOK(c) /\ ReaderOK(c) /\ TypeOK /\ WriterOK
  BY DEF FilterIInv, IInv
<1>4. ~ReloadDrop /\ verdict[c] = 0 => want[c] \in Elements(Chain)
  BY <1>1, <1>3 DEF ReaderOK
<1>5. Chain = <<>> => verdict[c] = 1
  BY <1>1, <1>3 DEF ReaderOK
<1>6. Elements(Chain) \subseteq Admissible
  BY <1>3, ChainType DEF Elements
<1>7. ReportOK(c)'
  BY <1>1, <1>3 DEF HookOK, ReportOK
<1>8. CASE c \in Softirq
  <2>1. /\ job[c] \in Frame /\ fate[c] = "none" /\ want[c] \in FrameTexts(job[c])
    BY <1>1, <1>3, <1>8 DEF HookOK, ReceiveOK, ReportOK
  <2>2. ~ReloadDrop /\ verdict[c] = 0 => FrameListed(job[c])
    BY <1>4, <1>6, <2>1 DEF FrameListed, FrameTexts
  <2> QED
    BY <1>1, <1>2, <1>5, <1>7, <1>8, <2>1, <2>2 DEF HookOK, ReceiveOK, FrameListed
<1>9. CASE c \notin Softirq
  <2>1. fate[c] = "none" /\ SendOK(c)
    BY <1>1, <1>3, <1>9 DEF HookOK, ReportOK
  <2> QED
    BY <1>1, <1>2, <1>4, <1>5, <1>7, <1>9, <2>1 DEF HookOK, SendOK, FoundListed, Kept
<1> QED
  BY <1>8, <1>9

\* The beginning of a hook: need_drop is looking for the packet's text.
LEMMA BeginKeepsHookOK ==
    ASSUME FilterIInv, NEW c \in Ctx,
           \/ \E f \in Frame : GroReceive(c, f)
           \/ \E m \in SendCall : Sendmsg(c, m) \/ AutobindFails(c, m)
    PROVE  HookOK(c)'
<1> USE DEF FilterIInv, HookTypeOK, IInv, TypeOK
<1>1. ASSUME NEW f \in Frame, GroReceive(c, f)
      PROVE  HookOK(c)'
  <2>1. /\ c \in Softirq /\ job'[c] = f /\ fate'[c] = "none"
        /\ stage'[c] \in {"check", "report"}
        /\ stage'[c] = "check" => want'[c] \in FrameTexts(f)
        /\ stage'[c] = "report" => f.kind = "ARP"
    BY <1>1 DEF GroReceive, NeedDrop, Unchecked
  <2> QED
    BY <2>1 DEF HookOK, ReportOK, ReceiveOK, FrameListed
<1>2. ASSUME NEW m \in SendCall, Sendmsg(c, m)
      PROVE  HookOK(c)'
  <2>1. /\ c \notin Softirq /\ job'[c] = m /\ fate'[c] = "none" /\ stage'[c] = "check"
        /\ want'[c] = Outgoing(peer[m.sock]) /\ peer' = peer /\ found'[c] = peer[m.sock]
    BY <1>2 DEF Sendmsg, NeedDrop
  <2> QED
    BY <2>1 DEF HookOK, ReportOK, SendOK, Kept
<1>3. ASSUME NEW m \in SendCall, AutobindFails(c, m)
      PROVE  HookOK(c)'
  <2>1. /\ c \notin Softirq /\ job'[c] = m /\ fate'[c] = "failed" /\ stage'[c] = "idle"
    BY <1>3 DEF AutobindFails
  <2> QED
    BY <2>1 DEF HookOK, ReportOK, SendOK
<1> QED
  BY <1>1, <1>2, <1>3

\* The end of a hook: the report, and what becomes of the packet.
LEMMA EndKeepsHookOK ==
    ASSUME FilterIInv, NEW c \in Ctx, Report(c) \/ FinishReceive(c) \/ FinishSend(c)
    PROVE  HookOK(c)'
<1> USE DEF FilterIInv, HookTypeOK
<1>1. UNCHANGED <<list, visible, adding>> /\ HookOK(c)
  BY DEF Report, FinishReceive, FinishSend, vars
<1>2. Chain' = Chain
  BY <1>1 DEF Chain
<1>3. CASE Report(c)
  <2>1. /\ stage[c] = "report" /\ stage'[c] = "act" /\ decision'[c] = decision[c]
        /\ report'[c] \in {<<decision[c]>>, <<>>}
        /\ UNCHANGED <<peer, job, fate, dest, found, left, want>>
    BY <1>3 DEF Report, ReportedBit, vars
  <2> QED
    BY <1>1, <1>2, <2>1 DEF HookOK, ReportOK, ReceiveOK, SendOK, FrameListed, FoundListed, Kept
<1>4. CASE FinishReceive(c)
  <2>1. /\ c \in Softirq /\ stage[c] = "act" /\ stage'[c] = "idle"
        /\ fate'[c] = (IF decision[c] = 1 THEN "dropped" ELSE "passed")
        /\ decision[c] \in {0, 1}
        /\ UNCHANGED <<job, decision, report>>
    BY <1>4 DEF FinishReceive
  <2> QED
    BY <1>1, <1>2, <2>1 DEF HookOK, ReportOK, ReceiveOK, FrameListed
<1>5. CASE FinishSend(c)
  <2>1. /\ c \notin Softirq /\ stage[c] = "act" /\ stage'[c] = "idle"
        /\ fate'[c] \in {"refused", "failed", "sent"}
        /\ fate'[c] = "refused" <=> decision[c] = 1
        /\ decision[c] \in {0, 1}
        /\ UNCHANGED <<job, decision, report, peer>>
    BY <1>5 DEF FinishSend
  <2>2. job[c] \in SendCall /\ Kept(c, peer[job[c].sock])
    BY <1>1, <2>1 DEF HookOK, SendOK
  <2>3. fate'[c] = "sent" => /\ dest'[c] = Target(job[c])
                            /\ UNCHANGED <<found, left>>
    BY <1>5 DEF FinishSend
  <2>4. fate'[c] = "sent" /\ job[c].sock \in Stream => Kept(c, dest[c])'
    BY <2>1, <2>2, <2>3 DEF Target, Kept
  <2>5. ~ReloadDrop /\ fate'[c] = "sent" => FoundListed(c)'
    BY <1>1, <1>2, <2>1, <2>3 DEF HookOK, SendOK, FoundListed
  <2>6. ReportOK(c)' /\ fate'[c] # "passed"
    BY <1>1, <2>1 DEF HookOK, ReportOK
  <2>7. Chain' = <<>> => fate'[c] # "sent"
    BY <1>1, <1>2, <2>1 DEF HookOK, SendOK
  <2> QED
    BY <2>1, <2>2, <2>4, <2>5, <2>6, <2>7 DEF HookOK, SendOK
<1> QED
  BY <1>3, <1>4, <1>5
-----------------------------------------------------------------------------
LEMMA NextFilterIInv == FilterIInv /\ [FilterNext]_allVars => FilterIInv'
<1> SUFFICES ASSUME FilterIInv, [FilterNext]_allVars PROVE FilterIInv'
  OBVIOUS
<1>1. IInv' /\ HookTypeOK'
  BY TableKept, HookTypesKept
<1> SUFFICES ASSUME NEW d \in Ctx PROVE HookOK(d)'
  BY <1>1 DEF FilterIInv
<1> USE DEF FilterIInv, HookTypeOK, IInv, TypeOK
<1>2. CASE UNCHANGED allVars
  BY <1>2, HookStable DEF allVars, hookVars, vars
<1>3. CASE (WriterStep \/ \E t \in Text : ReceiveMsg(t)) /\ UNCHANGED hookVars
  <2>1. want' = want
    BY <1>3 DEF ReceiveMsg, WriterStep, AllocFails, AllocItem, PublishStore, ItemComplete,
                CountItem, Announce, readerVars
  <2> QED
    BY <1>3, <2>1, HookStable DEF hookVars
<1>4. ASSUME NEW s \in Sock, NEW p \in Peer \cup {Nobody}, Repeer(s, p)
      PROVE  HookOK(d)'
  <2>1. /\ UNCHANGED <<vars, stage, job, decision, report, fate, dest, found>>
        /\ peer' = [peer EXCEPT ![s] = p]
        /\ d \in left => d \in left'
    BY <1>4 DEF Repeer
  <2>2. SUFFICES ASSUME d \notin Softirq, stage[d] # "idle"
                 PROVE  \/ peer'[job[d].sock] = peer[job[d].sock] \/ peer[job[d].sock] = Nobody
                        \/ d \in left'
    BY <2>1, HookStable DEF vars
  <2>3. CASE job[d].sock = s
    BY <1>4, <2>1, <2>2, <2>3 DEF Repeer
  <2>4. CASE job[d].sock # s
    <3>1. job[d] \in SendCall
      BY <2>2 DEF HookOK, SendOK
    <3>2. job[d].sock \in Sock
      BY <3>1 DEF SendCall
    <3> QED
      BY <2>1, <2>4, <3>2
  <2> QED
    BY <2>3, <2>4
<1>5. ASSUME NEW c \in Ctx,
             \/ \E f \in Frame : GroReceive(c, f)
             \/ \E m \in SendCall : Sendmsg(c, m) \/ AutobindFails(c, m)
      PROVE  HookOK(d)'
  <2>1. CASE c = d
    BY <1>5, <2>1, BeginKeepsHookOK
  <2>2. CASE c # d
    <3>1. /\ stage'[d] = stage[d] /\ job'[d] = job[d] /\ decision'[d] = decision[d]
          /\ report'[d] = report[d] /\ fate'[d] = fate[d] /\ dest'[d] = dest[d]
          /\ want'[d] = want[d] /\ peer' = peer
          /\ found'[d] = found[d]
          /\ d \in left => d \in left'
      BY <1>5, <2>2 DEF GroReceive, Sendmsg, AutobindFails, NeedDrop, vars
    <3> QED
      BY <3>1, HookStable
  <2> QED
    BY <2>1, <2>2
<1>6. ASSUME NEW c \in Ctx, TableStep(c), UNCHANGED hookVars
      PROVE  HookOK(d)'
  <2>1. want' = want
    BY <1>6 DEF TableStep, LoadItem, LoadHead, CompareItem, WildRead, StoreDrop, TestDrop
  <2> QED
    BY <1>6, <2>1, HookStable DEF hookVars
<1>7. ASSUME NEW c \in Ctx, Checked(c) \/ Report(c) \/ FinishReceive(c) \/ FinishSend(c)
      PROVE  HookOK(d)'
  <2>1. CASE c = d
    BY <1>7, <2>1, CheckedKeepsHookOK, EndKeepsHookOK
  <2>2. CASE c # d
    <3>1. /\ stage'[d] = stage[d] /\ job'[d] = job[d] /\ decision'[d] = decision[d]
          /\ report'[d] = report[d] /\ fate'[d] = fate[d] /\ dest'[d] = dest[d]
          /\ want'[d] = want[d] /\ peer' = peer
          /\ found'[d] = found[d]
          /\ d \in left => d \in left'
      BY <1>7, <2>2 DEF Checked, Return, Report, FinishReceive, FinishSend, vars
    <3> QED
      BY <3>1, HookStable
  <2> QED
    BY <2>1, <2>2
<1> QED
  BY <1>2, <1>3, <1>4, <1>5, <1>6, <1>7 DEF FilterNext, HookStep, Connect, Shutdown

THEOREM FilterInvariance == FilterSpec => []FilterIInv
BY InitFilterIInv, NextFilterIInv, PTL DEF FilterSpec
-----------------------------------------------------------------------------
\* The hooks use the table as RuleTable says it is used, so that every theorem of
\* the rule table holds of them.
THEOREM HooksUseTheTable == FilterSpec => Spec
<1>1. FilterInit => Init
  BY DEF FilterInit
<1>2. FilterIInv /\ [FilterNext]_allVars => [Next]_vars
  BY StepIsTableStep DEF FilterIInv
<1> QED
  BY <1>1, <1>2, FilterInvariance, PTL DEF FilterSpec, Spec

\* Every variable of both hooks and of the table keeps its type, and a hook waits for
\* need_drop exactly while need_drop runs.
THEOREM FilterTypesCorrect == FilterSpec => []FilterTypeOK
<1>1. FilterIInv => FilterTypeOK
  BY DEF FilterIInv, HookTypeOK, FilterTypeOK, IInv
<1> QED
  BY <1>1, FilterInvariance, PTL

\* What napi_gro_receive lets into the stack as TCP or UDP is listed, however many
\* contexts check, append and send at the same time.
THEOREM OnlyListedFlowsPass == FilterSpec => []PassedFlowIsListed
<1>1. FilterIInv => PassedFlowIsListed
  BY DEF FilterIInv, HookOK, ReceiveOK, SendOK, FrameListed, PassedFlowIsListed
<1> QED
  BY <1>1, FilterInvariance, PTL

\* No set of rules that check_rule admits lets ICMP into the stack.
THEOREM NoIcmpPasses == FilterSpec => []IcmpNeverPasses
<1>1. FilterIInv => IcmpNeverPasses
  BY DEF FilterIInv, HookOK, ReceiveOK, SendOK, FrameListed, IcmpNeverPasses
<1> QED
  BY <1>1, FilterInvariance, PTL

\* Both hooks deny everything but ARP until a rule is linked, even in a build whose
\* contexts read each other's result.
THEOREM HooksDenyByDefault == FilterSpec => []OnlyArpBeforeFirstRule
<1>1. FilterIInv => OnlyArpBeforeFirstRule
  BY DEF FilterIInv, HookOK, ReceiveOK, SendOK, OnlyArpBeforeFirstRule
<1> QED
  BY <1>1, FilterInvariance, PTL

\* Whatever inet_sendmsg lets through was checked against a listed peer, and a stream's
\* data goes to that peer, unless the socket had none or was taken away from it between
\* the check and the send: any number of tasks, sockets, peers and rules.
THEOREM SendsGoWhereChecked == FilterSpec => []SendsAreChecked
<1>1. ASSUME FilterIInv, NEW c \in Ctx, ~ReloadDrop, fate[c] = "sent"
      PROVE  /\ Outgoing(found[c]) \in Elements(Chain)
             /\ job[c].sock \in Stream => dest[c] = found[c] \/ found[c] = Nobody \/ c \in left
  <2>1. c \notin Softirq /\ SendOK(c)
    BY <1>1 DEF FilterIInv, HookOK, ReceiveOK
  <2> QED
    BY <1>1, <2>1 DEF SendOK, FoundListed, Kept
<1>2. FilterIInv => SendsAreChecked
  BY <1>1 DEF SendsAreChecked
<1> QED
  BY <1>2, FilterInvariance, PTL

\* A report that user space receives bears the verdict that was executed.
THEOREM ReportsTellTheFate == FilterSpec => []ReportTellsFate
<1>1. FilterIInv => ReportTellsFate
  BY DEF FilterIInv, HookOK, ReportOK, ReportTellsFate
<1> QED
  BY <1>1, FilterInvariance, PTL

\* Of any number of contexts, peers, sockets and rules: what gets through the hooks is
\* listed, and reports tell what became of it.
THEOREM HookSoundness == FilterSpec => []HooksAreSound
<1>1. PassedFlowIsListed /\ IcmpNeverPasses /\ OnlyArpBeforeFirstRule /\ ReportTellsFate
          => HooksAreSound
  BY DEF HooksAreSound
<1> QED
  BY <1>1, OnlyListedFlowsPass, NoIcmpPasses, HooksDenyByDefault, ReportsTellTheFate, PTL
=============================================================================
