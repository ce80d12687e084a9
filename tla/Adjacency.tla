----------------------------- MODULE Adjacency -----------------------------
(***************************************************************************)
(* The stacking of network devices in src/dev.c: __netdev_upper_dev_link   *)
(* and netdev_upper_dev_unlink, run under RTNL.                            *)
(*                                                                         *)
(* A device keeps two kinds of lists of other devices: adj_list, its       *)
(* direct upper and lower devices, and all_adj_list, all the devices above *)
(* and below it, each with a count ref_nr.  The second answers whether a   *)
(* device is above another without a walk; it is what keeps the graph free *)
(* of loops.  Linking dev below up adds up and everything above it to dev  *)
(* and everything below dev; unlinking takes them away by the same counts. *)
(*                                                                         *)
(* u is in d's all_adj_list.upper exactly when d is in u's                 *)
(* all_adj_list.lower, with the same ref_nr: one count stands for both.    *)
(***************************************************************************)
EXTENDS Naturals, FiniteSets, FiniteSetsExt

CONSTANTS
    Dev,        \* devices
    Masters,    \* the devices (bonds, bridges) that are linked above others as master
    LinkMayFail \* TRUE: a kmalloc, or a sysfs link, of a link operation may fail

ASSUME MastersAssumption == Masters \subseteq Dev /\ LinkMayFail \in BOOLEAN

VARIABLES
    upper,      \* upper[d]: d's adj_list.upper, the devices directly above d
    ref,        \* ref[<<d, u>>]: ref_nr of u in d's all_adj_list.upper, 0 if it is not there
    bug,        \* BUG() was reached: an entry to be removed was not there
    skewed      \* history: a count was changed by less than the number of its new paths

adjVars == <<upper, ref, bug, skewed>>

Upper(d) == {u \in Dev : ref[<<d, u>>] > 0}
Lower(d) == {l \in Dev : ref[<<l, d>>] > 0}

AdjInit == /\ upper = [d \in Dev |-> {}]
           /\ ref = [p \in Dev \X Dev |-> 0]
           /\ bug = FALSE
           /\ skewed = FALSE
-----------------------------------------------------------------------------
\* The pairs (a device, one above it) whose counts change when dev is linked below up,
\* or unlinked from it: the two devices, the mesh of what is below dev with what is
\* above up, and each of the two with the other's.
Pairs(dev, up) == (Lower(dev) \cup {dev}) \X (Upper(up) \cup {up})

\* Mutant: all the counts change by 1.
AmountOne(dev, up, p) == 1

\* By how much the count of a pair changes: the calls pass 1 for the two devices, the
\* count of dev below dev's upper devices and the lower device's count, i->ref_nr, for
\* the mesh, whatever the count of j above up.
Amount(dev, up, p) == IF p = <<dev, up>> THEN 1
                      ELSE IF p[1] = dev THEN ref[<<up, p[2]>>]
                      ELSE ref[<<p[1], dev>>]

\* The counts after __netdev_adjacent_dev_insert for each pair of ps.
Inserted(r, dev, up, ps) ==
    [p \in Dev \X Dev |-> IF p \in ps THEN r[p] + Amount(dev, up, p) ELSE r[p]]

\* The counts after __netdev_adjacent_dev_remove for each pair of ps.
Removed(r, dev, up, ps) ==
    [p \in Dev \X Dev |-> IF p \notin ps THEN r[p]
                          ELSE IF r[p] > Amount(dev, up, p) THEN r[p] - Amount(dev, up, p)
                          ELSE 0]

\* The mesh has a pair with several paths above up: its count should change by a product.
Skews(dev, up) == \E i \in Lower(dev), j \in Upper(up) : ref[<<up, j>>] > 1

\* The early returns of __netdev_upper_dev_link: -EBUSY for a device above itself, for a
\* loop and for a second master, -EEXIST for a second link.
MayLink(dev, up) ==
    /\ dev # up
    /\ dev \notin Upper(up)
    /\ up \notin upper[dev]
    /\ up \in Masters => upper[dev] \cap Masters = {}

UpperDevLink(dev, up) ==
    /\ ~bug
    /\ MayLink(dev, up)
    /\ upper' = [upper EXCEPT ![dev] = @ \cup {up}]
    /\ ref' = Inserted(ref, dev, up, Pairs(dev, up))
    /\ skewed' = (skewed \/ Skews(dev, up))
    /\ UNCHANGED bug

\* Mutant: the roll back of a mesh leaves the two devices linked.
UndoneButOne(dev, up, ps) == ps \ {<<dev, up>>}

\* The pairs that the roll back of a link takes back.
Undone(dev, up, ps) == ps

\* The order in which a link visits its pairs: the two devices, the mesh, dev with what is
\* above up, what is below dev with up.
Rank(dev, up, p) == IF p = <<dev, up>> THEN 1
                    ELSE IF p[1] # dev /\ p[2] # up THEN 2
                    ELSE IF p[1] = dev THEN 3
                    ELSE 4

\* A link that fails at one of its pairs is rolled back.
UpperDevLinkFails(dev, up) ==
    /\ LinkMayFail
    /\ ~bug
    /\ MayLink(dev, up)
    /\ \E at \in Pairs(dev, up), done \in SUBSET Pairs(dev, up) :
          /\ at \notin done
          /\ \A p \in Pairs(dev, up) :
                /\ Rank(dev, up, p) < Rank(dev, up, at) => p \in done
                /\ Rank(dev, up, p) > Rank(dev, up, at) => p \notin done
          /\ ref' = Removed(Inserted(ref, dev, up, done), dev, up, Undone(dev, up, done))
    /\ UNCHANGED <<upper, bug, skewed>>

\* Callers unlink what they have linked.
UpperDevUnlink(dev, up) ==
    /\ ~bug
    /\ up \in upper[dev]
    /\ upper' = [upper EXCEPT ![dev] = @ \ {up}]
    /\ ref' = Removed(ref, dev, up, Pairs(dev, up))
    /\ bug' = (\E p \in Pairs(dev, up) : ref[p] = 0)
    /\ skewed' = (skewed \/ Skews(dev, up))

AdjNext == \E dev, up \in Dev : \/ UpperDevLink(dev, up)
                                \/ UpperDevLinkFails(dev, up)
                                \/ UpperDevUnlink(dev, up)

AdjSpec == AdjInit /\ [][AdjNext]_adjVars
-----------------------------------------------------------------------------
AdjTypeOK == /\ upper \in [Dev -> SUBSET Dev]
             /\ ref \in [Dev \X Dev -> Nat]
             /\ bug \in BOOLEAN /\ skewed \in BOOLEAN

\* The count of u above d is the number of paths from d to u: one if u is directly above
\* d, and those through each other device directly above d.  It follows that all_adj_list
\* has exactly the devices above and below; no device is above itself, and no entry is
\* removed that is not there (src/dev.c:5545, 5572, 5712).
RefsCountPaths ==
    ~skewed =>
        /\ \A d, u \in Dev :
               ref[<<d, u>>] = (IF u \in upper[d] THEN 1 ELSE 0)
                                   + MapThenSumSet(LAMBDA m : ref[<<m, u>>], upper[d])
        /\ ~bug /\ \A d \in Dev : d \notin Upper(d)

\* A link that fails leaves no trace: counts change only together with the direct links.
FailedLinkLeavesNoTrace == [][upper' = upper => ref' = ref]_adjVars

\* The assertion in __netdev_adjacent_dev_remove: the entry to be removed is there.
EntryIsThere == ~bug
=============================================================================
