-------------------------- MODULE CapabilitiesProofs --------------------------
(***************************************************************************)
(* What Capabilities promises for any chain of providers, any registries   *)
(* and any number of runs.  A binding set, once published, stays where it  *)
(* is; so it is enough that each snapshot refers to the set it was         *)
(* published with, in the registry execution looks into (RouteInv), and    *)
(* that what a fixed provider published is found under its own number      *)
(* (FixedInv).                                                             *)
(***************************************************************************)
EXTENDS Capabilities, FiniteSetTheorems, TLAPS

-----------------------------------------------------------------------------
(* Registries *)

\* A function from tools to keys is a binding set.
LEMMA BindingType ==
    ASSUME NEW ts \in SUBSET Tools, NEW f \in [ts -> Keys] PROVE f \in Bindings
BY DEF Bindings

\* A binding set is a function from tools to keys.
LEMMA BindingParts ==
    ASSUME NEW f \in Bindings PROVE DOMAIN f \subseteq Tools /\ f \in [DOMAIN f -> Keys]
BY DEF Bindings

\* The providers of the chain are well formed.
LEMMA ChainType ==
    /\ Chain \in Seq(Provider) /\ Default \in Keys
    /\ \A k \in DOMAIN Chain : /\ Chain[k].registry \in Registries \cup {None}
                               /\ Chain[k].fixed \in Bindings
                               /\ IsFixed(Chain[k]) => Chain[k].registry \in Registries
<1>1. Chain \in Seq(Provider) /\ Default \in Keys BY Setup
<1>2. \A k \in DOMAIN Chain : Chain[k] \in Provider BY <1>1
<1>3. \A p \in Provider : p.registry \in Registries \cup {None} /\ p.fixed \in Bindings BY DEF Provider
<1>4. \A k \in DOMAIN Chain : IsFixed(Chain[k]) => Chain[k].registry # None BY Setup
<1> QED BY <1>1, <1>2, <1>3, <1>4

\* The registry of the runtime is one of the registries.
LEMMA SharedType == Shared \in Registries /\ Shared # None
<1>1. CASE Explicit # None BY <1>1, Setup DEF Shared
<1>2. CASE Explicit = None
  <2> DEFINE first == CHOOSE k \in DOMAIN Chain : FirstSource(k)
  <2>1. first \in DOMAIN Chain /\ FirstSource(first) BY <1>2, Setup
  <2>2. Shared = Chain[first].registry BY <1>2 DEF Shared
  <2> QED BY <2>1, <2>2, ChainType, Setup DEF FirstSource
<1> QED BY <1>1, <1>2

\* What was published stays published, under its number.
Extends(old, new) ==
    \A g \in Registries : \A n \in DOMAIN old[g] : n \in DOMAIN new[g] /\ new[g][n] = old[g][n]

\* A new binding set gets a new number, and nothing else changes.
LEMMA PublishFacts ==
    ASSUME NEW tabs \in [Registries -> Seq(Bindings)], NEW g \in Registries, NEW f \in Bindings
    PROVE  /\ Publish(tabs, g, f) \in [Registries -> Seq(Bindings)]
           /\ Extends(tabs, Publish(tabs, g, f))
           /\ LastRef(Publish(tabs, g, f), g) \in DOMAIN Publish(tabs, g, f)[g]
           /\ LastRef(Publish(tabs, g, f), g) \in Nat
           /\ Publish(tabs, g, f)[g][LastRef(Publish(tabs, g, f), g)] = f
BY DEF Publish, Extends, LastRef

\* A selection is adopted whole: the shared registry has its binding set.
LEMMA AdoptFacts ==
    ASSUME NEW tabs \in [Registries -> Seq(Bindings)], NEW p \in Provider, NEW ref,
           LET g == IF p.registry = None THEN Shared ELSE p.registry IN ref \in DOMAIN tabs[g]
    PROVE  LET adopted == Adopt(tabs, p, ref)
               g == IF p.registry = None THEN Shared ELSE p.registry
           IN  /\ adopted.tabs \in [Registries -> Seq(Bindings)]
               /\ Extends(tabs, adopted.tabs)
               /\ adopted.ref \in Nat
               /\ adopted.ref \in DOMAIN adopted.tabs[Shared]
               /\ adopted.tabs[Shared][adopted.ref] = tabs[g][ref]
<1> USE SharedType
<1>1. CASE p.registry \in {None, Shared}
  <2>1. Adopt(tabs, p, ref) = [tabs |-> tabs, ref |-> ref] BY <1>1 DEF Adopt
  <2>2. ref \in DOMAIN tabs[Shared] /\ ref \in Nat BY <1>1
  <2> QED BY <1>1, <2>1, <2>2 DEF Extends
<1>2. CASE p.registry \notin {None, Shared}
  <2> DEFINE f == tabs[p.registry][ref]
             copied == Publish(tabs, Shared, f)
  <2>1. p.registry \in Registries /\ f \in Bindings BY <1>2 DEF Provider
  <2>2. Adopt(tabs, p, ref) = [tabs |-> copied, ref |-> LastRef(copied, Shared)] BY <1>2 DEF Adopt
  <2> HIDE DEF copied, f
  <2>3. /\ copied \in [Registries -> Seq(Bindings)] /\ Extends(tabs, copied)
        /\ LastRef(copied, Shared) \in Nat
        /\ LastRef(copied, Shared) \in DOMAIN copied[Shared]
        /\ copied[Shared][LastRef(copied, Shared)] = f
      BY <2>1, PublishFacts DEF copied
  <2> QED BY <1>2, <2>2, <2>3 DEF f
<1> QED BY <1>1, <1>2

\* A fixed provider's number is its place among the fixed providers of its registry.
LEMMA FixedRefFacts ==
    ASSUME NEW g
    PROVE  /\ IsFiniteSet(FixedOf(g)) /\ Cardinality(FixedOf(g)) \in Nat
           /\ \A k \in FixedOf(g) : FixedRef(g, k) \in 1 .. Cardinality(FixedOf(g))
           /\ \A j, k \in FixedOf(g) : FixedRef(g, j) = FixedRef(g, k) => j = k
<1> DEFINE Upto(k) == {j \in FixedOf(g) : j <= k}
<1>1. FixedOf(g) \subseteq 1 .. Len(Chain) /\ Len(Chain) \in Nat BY ChainType DEF FixedOf
<1>2. IsFiniteSet(FixedOf(g))
  <2>1. 1 \in Int /\ Len(Chain) \in Int BY <1>1
  <2>2. IsFiniteSet(1 .. Len(Chain)) BY <2>1, FS_Interval
  <2> QED BY <1>1, <2>2, FS_Subset
<1>3. \A k : IsFiniteSet(Upto(k)) /\ Cardinality(Upto(k)) \in Nat
      /\ Cardinality(Upto(k)) <= Cardinality(FixedOf(g))
    BY <1>2, FS_Subset, FS_CardinalityType
<1>4. \A k \in FixedOf(g) : k \in Upto(k) BY <1>1
<1>5. \A k \in FixedOf(g) : Cardinality(Upto(k)) # 0 BY <1>3, <1>4, FS_EmptySet
<1>6. ASSUME NEW j \in FixedOf(g), NEW k \in FixedOf(g), j < k
      PROVE  Cardinality(Upto(j)) # Cardinality(Upto(k))
  <2>1. Upto(j) \subseteq Upto(k) BY <1>1, <1>6
  <2>2. k \in Upto(k) /\ k \notin Upto(j) BY <1>1, <1>6
  <2> QED BY <1>3, <2>1, <2>2, FS_Subset
<1>7. \A k : FixedRef(g, k) = Cardinality(Upto(k)) BY DEF FixedRef
<1>8. Cardinality(FixedOf(g)) \in Nat BY <1>2, FS_CardinalityType
<1> HIDE DEF Upto
<1>9. \A k \in FixedOf(g) : FixedRef(g, k) \in 1 .. Cardinality(FixedOf(g)) BY <1>3, <1>5, <1>7, <1>8
<1>10. \A j, k \in FixedOf(g) : FixedRef(g, j) = FixedRef(g, k) => j = k BY <1>1, <1>6, <1>7
<1> QED BY <1>2, <1>8, <1>9, <1>10

\* The fixed providers of a registry publish one binding set each, in their order.
LEMMA FixedTableFacts ==
    ASSUME NEW g \in Registries
    PROVE  /\ FixedTable(g) \in Seq(Bindings)
           /\ \A k \in FixedOf(g) : /\ FixedRef(g, k) \in DOMAIN FixedTable(g)
                                    /\ FixedTable(g)[FixedRef(g, k)] = Chain[k].fixed
<1> DEFINE n == Cardinality(FixedOf(g))
           f == [k \in FixedOf(g) |-> FixedRef(g, k)]
<1>1. n \in Nat /\ f \in Injection(FixedOf(g), 1 .. n)
  <2>1. n \in Nat /\ \A k \in FixedOf(g) : f[k] = FixedRef(g, k) /\ f[k] \in 1 .. n BY FixedRefFacts
  <2>2. f \in [FixedOf(g) -> 1 .. n] BY <2>1
  <2>3. \A j, k \in FixedOf(g) : f[j] = f[k] => j = k BY <2>1, FixedRefFacts
  <2> HIDE DEF n, f
  <2> QED BY <2>1, <2>2, <2>3 DEF Injection, IsInjective
<1>2. IsFiniteSet(1 .. n) /\ Cardinality(1 .. n) = n
  <2> HIDE DEF n
  <2>1. 1 \in Int /\ n \in Int BY <1>1
  <2>2. IsFiniteSet(1 .. n) /\ Cardinality(1 .. n) = IF 1 > n THEN 0 ELSE n - 1 + 1 BY <2>1, FS_Interval
  <2> QED BY <1>1, <2>2
<1>3. f \in Surjection(FixedOf(g), 1 .. n) BY <1>1, <1>2, FS_Injection
<1>4. \A m \in 1 .. n : \E k \in FixedOf(g) : FixedRef(g, k) = m BY <1>3 DEF Surjection
<1>5. \A m \in 1 .. n : FixedTable(g)[m] \in Bindings
  <2> TAKE m \in 1 .. n
  <2> DEFINE c == CHOOSE k \in FixedOf(g) : FixedRef(g, k) = m
  <2>1. c \in FixedOf(g) BY <1>4
  <2>2. FixedTable(g)[m] = Chain[c].fixed BY DEF FixedTable
  <2> QED BY <2>1, <2>2, ChainType DEF FixedOf
<1>6. FixedTable(g) \in Seq(Bindings)
  <2>1. FixedTable(g) \in [1 .. n -> Bindings] BY <1>5 DEF FixedTable
  <2> HIDE DEF n
  <2> QED BY <1>1, <2>1
<1>7. ASSUME NEW k \in FixedOf(g)
      PROVE  FixedRef(g, k) \in DOMAIN FixedTable(g) /\ FixedTable(g)[FixedRef(g, k)] = Chain[k].fixed
  <2> DEFINE m == FixedRef(g, k)
             c == CHOOSE j \in FixedOf(g) : FixedRef(g, j) = m
  <2>1. c \in FixedOf(g) /\ FixedRef(g, c) = m OBVIOUS
  <2>2. c = k BY <2>1, FixedRefFacts
  <2>3. m \in 1 .. n BY FixedRefFacts
  <2>4. FixedTable(g)[m] = Chain[c].fixed /\ m \in DOMAIN FixedTable(g) BY <2>3 DEF FixedTable
  <2> QED BY <2>2, <2>4
<1> QED BY <1>6, <1>7

\* There is a provider to ask.
LEMMA ChainNotEmpty == 1 \in DOMAIN Chain /\ DOMAIN Chain = 1 .. Len(Chain) /\ Len(Chain) \in Nat
BY Setup, ChainType

-----------------------------------------------------------------------------
(* The inductive invariant *)

\* A chain that has not been asked has published its fixed selections, and no run has tools.
LEMMA CapabilityInit == Init => CapabilityInv
<1> SUFFICES ASSUME Init PROVE CapabilityInv OBVIOUS
<1>1. \A g \in Registries : tables[g] = FixedTable(g) BY DEF Init
<1>2. tables \in [Registries -> Seq(Bindings)] BY <1>1, FixedTableFacts DEF Init
<1>3. 1 \in DOMAIN Chain BY ChainNotEmpty
<1>4. CapabilityTypes BY <1>2, <1>3 DEF Init, CapabilityTypes, Snapshot
<1>5. FixedInv
  <2> SUFFICES ASSUME NEW k \in DOMAIN Chain, IsFixed(Chain[k])
               PROVE  /\ FixedRef(Chain[k].registry, k) \in DOMAIN tables[Chain[k].registry]
                      /\ tables[Chain[k].registry][FixedRef(Chain[k].registry, k)] = Chain[k].fixed
      BY DEF FixedInv
  <2>1. Chain[k].registry \in Registries /\ k \in FixedOf(Chain[k].registry) BY ChainType DEF FixedOf
  <2> QED BY <1>1, <2>1, FixedTableFacts
<1>6. RouteInv /\ ResolveInv BY DEF Init, RouteInv, ResolveInv
<1> QED BY <1>4, <1>5, <1>6 DEF CapabilityInv

\* What the invariants say of the binding sets outlives any publication.
LEMMA ExtendsKeeps ==
    ASSUME FixedInv, Extends(tables, tables')
    PROVE  /\ FixedInv'
           /\ \A n \in DOMAIN tables[Shared] : n \in DOMAIN tables'[Shared] /\ tables'[Shared][n] = tables[Shared][n]
BY ChainType, SharedType DEF FixedInv, Extends

\* A run that starts has the binding set that was selected for it.
LEMMA StartsStep ==
    ASSUME CapabilityInv, NEW r \in Runs, phase[r] = "resolving",
           NEW tabs \in [Registries -> Seq(Bindings)], Extends(tables, tabs),
           NEW version \in Int, NEW mapping \in Bindings, NEW p \in Provider, NEW ref,
           LET g == IF p.registry = None THEN Shared ELSE p.registry IN
              ref \in DOMAIN tabs[g] /\ tabs[g][ref] = mapping,
           NEW kind \in Kinds, Answered(r, kind), Starts(r, tabs, version, mapping, p, ref)
    PROVE  CapabilityInv'
<1> DEFINE adopted == Adopt(tabs, p, ref)
           snap    == [version |-> version, tools |-> DOMAIN mapping, ref |-> adopted.ref]
           entry   == [snap |-> snap, keys |-> mapping]
<1>1. /\ adopted.tabs \in [Registries -> Seq(Bindings)] /\ Extends(tabs, adopted.tabs)
      /\ adopted.ref \in Nat /\ adopted.ref \in DOMAIN adopted.tabs[Shared]
      /\ adopted.tabs[Shared][adopted.ref] = mapping
    BY AdoptFacts
<1>2. /\ tables' = adopted.tabs
      /\ phase' = [phase EXCEPT ![r] = "running"]
      /\ current' = [current EXCEPT ![r] = snap]
      /\ history' = [history EXCEPT ![r] = @ \cup {entry}]
      /\ answers' = [answers EXCEPT ![r] = Append(@, kind)]
      /\ UNCHANGED <<at, seq>>
    BY DEF Starts, Answered
<1>3. snap \in Snapshot /\ entry \in [snap : Snapshot, keys : Bindings]
    BY <1>1, BindingParts DEF Snapshot
<1> HIDE DEF adopted
<1>4. Extends(tables, tables') BY <1>1, <1>2 DEF Extends
<1>5. CapabilityTypes'
    BY <1>1, <1>2, <1>3 DEF CapabilityInv, CapabilityTypes
<1>6. FixedInv' BY <1>4, ExtendsKeeps DEF CapabilityInv
<1>7. RouteInv'
  <2>1. \A q \in Runs : \A h \in history'[q] : h \in history[q] \/ h = entry
      BY <1>2 DEF CapabilityInv, CapabilityTypes
  <2>2. \A q \in Runs : \A h \in history[q] :
            /\ h.snap.ref \in DOMAIN tables'[Shared] /\ tables'[Shared][h.snap.ref] = h.keys
            /\ h.snap.tools \subseteq DOMAIN h.keys
      BY <1>4, ExtendsKeeps DEF CapabilityInv, RouteInv
  <2>3. \A q \in Runs : phase'[q] = "running" => \E h \in history'[q] : h.snap = current'[q]
    <3> SUFFICES ASSUME NEW q \in Runs, phase'[q] = "running" PROVE \E h \in history'[q] : h.snap = current'[q]
        OBVIOUS
    <3>1. CASE q = r
      <4>1. entry.snap = snap OBVIOUS
      <4> HIDE DEF entry, snap
      <4>2. entry \in history'[q] /\ current'[q] = snap
          BY <1>2, <3>1 DEF CapabilityInv, CapabilityTypes
      <4> QED BY <4>1, <4>2
    <3>2. CASE q # r BY <1>2, <3>2 DEF CapabilityInv, CapabilityTypes, RouteInv
    <3> QED BY <3>1, <3>2
  <2>4. /\ entry.snap.ref \in DOMAIN tables'[Shared] /\ tables'[Shared][entry.snap.ref] = entry.keys
        /\ entry.snap.tools \subseteq DOMAIN entry.keys
      BY <1>1, <1>2
  <2> HIDE DEF entry
  <2> QED BY <2>1, <2>2, <2>3, <2>4 DEF RouteInv
<1>8. ResolveInv' BY <1>2 DEF CapabilityInv, CapabilityTypes, ResolveInv
<1> QED BY <1>5, <1>6, <1>7, <1>8 DEF CapabilityInv

\* The binding set a session publishes: what is kept keeps its key.
LEMMA PublishedFacts ==
    ASSUME NEW previous \in Bindings, NEW tools \in SUBSET Tools, NEW extra \in Bindings
    PROVE  /\ Published(previous, tools, extra) \in Bindings
           /\ DOMAIN Published(previous, tools, extra) = tools \cup DOMAIN extra
           /\ Published(previous, tools, extra) =
                [t \in tools \cup DOMAIN extra |-> IF t \in DOMAIN extra THEN extra[t] ELSE KeyIn(previous, t)]
<1> DEFINE kept == [t \in tools |-> KeyIn(previous, t)]
           all  == [t \in tools \cup DOMAIN extra |-> IF t \in DOMAIN extra THEN extra[t] ELSE KeyIn(previous, t)]
<1>1. Published(previous, tools, extra) = all BY DEF Published, Merge
<1>2. DOMAIN previous \subseteq Tools /\ previous \in [DOMAIN previous -> Keys] BY BindingParts
<1>3. DOMAIN extra \subseteq Tools /\ extra \in [DOMAIN extra -> Keys] BY BindingParts
<1>4. \A t : KeyIn(previous, t) \in Keys BY <1>2, ChainType DEF KeyIn
<1>5. all \in [tools \cup DOMAIN extra -> Keys] BY <1>3, <1>4
<1>6. all \in Bindings BY <1>3, <1>5, BindingType
<1> QED BY <1>1, <1>6

\* A session's update leaves every earlier snapshot with its binding set.
LEMMA SessionStep ==
    ASSUME CapabilityInv, NEW r \in Runs, NEW tools \in SUBSET Tools, NEW extra \in Bindings,
           SessionPublishes(r, tools, extra)
    PROVE  CapabilityInv'
<1> DEFINE previous == tables[Shared][current[r].ref]
           mapping  == Published(previous, tools, extra)
           tabs     == Publish(tables, Shared, mapping)
           snap     == [version |-> NextVersion(r), tools |-> tools, ref |-> LastRef(tabs, Shared)]
           entry    == [snap |-> snap, keys |-> mapping]
<1>1. PICK h \in history[r] : h.snap = current[r] BY DEF SessionPublishes, CapabilityInv, RouteInv
<1>2. /\ \A g \in history[r] : g.snap = current[r] => g.keys = previous
      /\ current[r].ref \in DOMAIN tables[Shared]
    BY <1>1 DEF CapabilityInv, RouteInv
<1>3. KeysOf(r) = previous BY <1>1, <1>2 DEF KeysOf
<1>4. previous \in Bindings BY <1>2, SharedType DEF CapabilityInv, CapabilityTypes
<1> DEFINE keys == [t \in tools \cup DOMAIN extra |-> IF t \in DOMAIN extra THEN extra[t] ELSE KeyIn(KeysOf(r), t)]
<1>5. mapping \in Bindings /\ DOMAIN mapping = tools \cup DOMAIN extra /\ mapping = keys
  <2>1. /\ mapping \in Bindings /\ DOMAIN mapping = tools \cup DOMAIN extra
        /\ mapping = [t \in tools \cup DOMAIN extra |-> IF t \in DOMAIN extra THEN extra[t] ELSE KeyIn(previous, t)]
    <3> HIDE DEF previous
    <3>1. Published(previous, tools, extra) \in Bindings BY <1>4, PublishedFacts, Zenon
    <3>2. Published(previous, tools, extra) =
            [t \in tools \cup DOMAIN extra |-> IF t \in DOMAIN extra THEN extra[t] ELSE KeyIn(previous, t)]
        BY DEF Published, Merge
    <3> QED BY <3>1, <3>2
  <2>2. keys = [t \in tools \cup DOMAIN extra |-> IF t \in DOMAIN extra THEN extra[t] ELSE KeyIn(previous, t)]
      BY <1>3
  <2> HIDE DEF mapping, keys
  <2> QED BY <2>1, <2>2
<1>6. history' = [history EXCEPT ![r] = @ \cup {[snap |-> snap, keys |-> keys]}]
    BY DEF SessionPublishes
<1> HIDE DEF mapping, keys
<1>7. /\ tables' = tabs
      /\ seq' = [seq EXCEPT ![r] = @ + 1]
      /\ current' = [current EXCEPT ![r] = snap]
      /\ history' = [history EXCEPT ![r] = @ \cup {entry}]
      /\ UNCHANGED <<phase, at, answers>>
    BY <1>5, <1>6 DEF SessionPublishes, mapping
<1>8. NextVersion(r) \in Int BY DEF NextVersion, CapabilityInv, CapabilityTypes
<1>9. /\ tabs \in [Registries -> Seq(Bindings)] /\ Extends(tables, tabs)
      /\ LastRef(tabs, Shared) \in DOMAIN tabs[Shared] /\ LastRef(tabs, Shared) \in Nat
      /\ tabs[Shared][LastRef(tabs, Shared)] = mapping
  <2>1. tables \in [Registries -> Seq(Bindings)] /\ Shared \in Registries /\ mapping \in Bindings
      BY <1>5, SharedType DEF CapabilityInv, CapabilityTypes
  <2> QED BY <2>1, PublishFacts
<1> HIDE DEF tabs
<1>10. snap \in Snapshot /\ entry \in [snap : Snapshot, keys : Bindings]
    BY <1>5, <1>8, <1>9 DEF Snapshot
<1>11. Extends(tables, tables') BY <1>7, <1>9
<1>12. CapabilityTypes' BY <1>7, <1>9, <1>10 DEF CapabilityInv, CapabilityTypes
<1>13. FixedInv' BY <1>11, ExtendsKeeps DEF CapabilityInv
<1>14. RouteInv'
  <2>1. \A q \in Runs : \A g \in history'[q] : g \in history[q] \/ g = entry
      BY <1>7 DEF CapabilityInv, CapabilityTypes
  <2>2. \A q \in Runs : \A g \in history[q] :
            /\ g.snap.ref \in DOMAIN tables'[Shared] /\ tables'[Shared][g.snap.ref] = g.keys
            /\ g.snap.tools \subseteq DOMAIN g.keys
      BY <1>11, ExtendsKeeps DEF CapabilityInv, RouteInv
  <2>3. /\ entry.snap.ref \in DOMAIN tables'[Shared] /\ tables'[Shared][entry.snap.ref] = entry.keys
        /\ entry.snap.tools \subseteq DOMAIN entry.keys
      BY <1>5, <1>7, <1>9
  <2>4. entry.snap = snap OBVIOUS
  <2> HIDE DEF entry, snap
  <2>5. entry \in history'[r] /\ current'[r] = snap BY <1>7 DEF CapabilityInv, CapabilityTypes
  <2>6. \A q \in Runs : phase'[q] = "running" => \E g \in history'[q] : g.snap = current'[q]
      BY <1>7, <2>4, <2>5 DEF CapabilityInv, CapabilityTypes, RouteInv
  <2> QED BY <2>1, <2>2, <2>3, <2>6 DEF RouteInv
<1>15. ResolveInv'
  <2>1. phase[r] = "running" BY DEF SessionPublishes
  <2> QED BY <1>7, <2>1 DEF CapabilityInv, CapabilityTypes, ResolveInv
<1> QED BY <1>12, <1>13, <1>14, <1>15 DEF CapabilityInv

\* A step of the chain or of a session keeps the invariant.
LEMMA CapabilityNext == CapabilityInv /\ [Next]_vars => CapabilityInv'
<1> SUFFICES ASSUME CapabilityInv, [Next]_vars PROVE CapabilityInv' OBVIOUS
<1>1. CASE UNCHANGED vars
    BY <1>1 DEF vars, CapabilityInv, CapabilityTypes, FixedInv, RouteInv, ResolveInv
<1>2. ASSUME NEW r \in Runs, BeginResolve(r) PROVE CapabilityInv'
    BY <1>2 DEF BeginResolve, CapabilityInv, CapabilityTypes, FixedInv, RouteInv, ResolveInv
<1>3. ASSUME NEW r \in Runs, FixedAnswers(r) PROVE CapabilityInv'
  <2> DEFINE k == at[r]
             p == Chain[k]
             n == FixedRef(p.registry, k)
  <2>1. k \in DOMAIN Chain /\ p \in Provider /\ IsFixed(p) /\ p.registry \in Registries /\ p.registry # None
      BY <1>3, ChainType, Setup DEF FixedAnswers, CapabilityInv, CapabilityTypes
  <2>2. n \in DOMAIN tables[p.registry] /\ tables[p.registry][n] = p.fixed
      BY <2>1 DEF CapabilityInv, FixedInv
  <2>3. /\ phase[r] = "resolving" /\ Answered(r, "matched")
        /\ Starts(r, tables, 1, p.fixed, p, n)
      BY <1>3 DEF FixedAnswers
  <2>4. p.fixed \in Bindings /\ "matched" \in Kinds /\ Extends(tables, tables) /\ 1 \in Int
        /\ tables \in [Registries -> Seq(Bindings)]
      BY <2>1 DEF Provider, Kinds, Extends, CapabilityInv, CapabilityTypes
  <2> HIDE DEF p, n
  <2> QED BY <2>1, <2>2, <2>3, <2>4, StartsStep
<1>4. ASSUME NEW r \in Runs, HostGrants(r) PROVE CapabilityInv'
  <2> DEFINE p == Chain[at[r]]
             g == IF p.registry = None THEN Shared ELSE p.registry
  <2>1. p \in Provider /\ g \in Registries
      BY ChainType, SharedType DEF CapabilityInv, CapabilityTypes
  <2>2. PICK kind \in {"matched", "degraded"}, mapping \in Bindings, version \in HostVersions :
            /\ phase[r] = "resolving" /\ Answered(r, kind)
            /\ Starts(r, Publish(tables, g, mapping), version, mapping, p, LastRef(Publish(tables, g, mapping), g))
      BY <1>4 DEF HostGrants
  <2> DEFINE tabs == Publish(tables, g, mapping)
  <2>3. tables \in [Registries -> Seq(Bindings)] BY DEF CapabilityInv, CapabilityTypes
  <2>4. /\ tabs \in [Registries -> Seq(Bindings)] /\ Extends(tables, tabs)
        /\ LastRef(tabs, g) \in DOMAIN tabs[g] /\ tabs[g][LastRef(tabs, g)] = mapping
    <3> HIDE DEF g
    <3> QED BY <2>1, <2>3, PublishFacts
  <2>5. kind \in Kinds /\ version \in Int BY Setup DEF Kinds
  <2> HIDE DEF tabs, p
  <2> QED BY <2>1, <2>2, <2>4, <2>5, StartsStep DEF tabs
<1>5. ASSUME NEW r \in Runs, HostDeclines(r) PROVE CapabilityInv'
  <2>1. PICK kind \in Kinds :
            /\ phase[r] = "resolving" /\ Answered(r, kind)
            /\ IF kind = "no_match" THEN GoesOn(r)
               ELSE phase' = [phase EXCEPT ![r] = "failed"] /\ UNCHANGED <<tables, at, current, seq, history>>
      BY <1>5 DEF HostDeclines, Continues
  <2>2. UNCHANGED <<tables, current, seq, history>> BY <2>1 DEF GoesOn
  <2>3. phase' = [phase EXCEPT ![r] = "failed"] \/ (phase' = phase /\ kind = "no_match") BY <2>1 DEF GoesOn
  <2>4. CapabilityTypes'
    <3>1. at' \in [Runs -> DOMAIN Chain]
      <4>1. at \in [Runs -> 1 .. Len(Chain)] /\ Len(Chain) \in Nat
          BY ChainNotEmpty DEF CapabilityInv, CapabilityTypes
      <4>2. UNCHANGED at \/ (at[r] < Len(Chain) /\ at' = [at EXCEPT ![r] = @ + 1])
          BY <2>1 DEF GoesOn
      <4> QED BY <4>1, <4>2, ChainNotEmpty
    <3>2. answers' \in [Runs -> Seq(Kinds)] BY <2>1 DEF Answered, CapabilityInv, CapabilityTypes
    <3> QED BY <2>2, <2>3, <3>1, <3>2 DEF CapabilityInv, CapabilityTypes
  <2>5. FixedInv' /\ RouteInv' BY <2>2, <2>3 DEF CapabilityInv, CapabilityTypes, FixedInv, RouteInv
  <2>6. ResolveInv' BY <2>1, <2>2, <2>3 DEF Answered, CapabilityInv, CapabilityTypes, ResolveInv
  <2> QED BY <2>4, <2>5, <2>6 DEF CapabilityInv
<1>6. ASSUME NEW r \in Runs, Activate(r) \/ Replace(r) PROVE CapabilityInv'
  <2>1. <<>> \in Bindings
    <3>1. {} \in SUBSET Tools /\ <<>> \in [{} -> Keys] OBVIOUS
    <3> QED BY <3>1, BindingType
  <2>2. current[r].tools \subseteq Tools BY DEF CapabilityInv, CapabilityTypes, Snapshot
  <2> QED BY <1>6, <2>1, <2>2, SessionStep DEF Activate, Replace
<1> QED BY <1>1, <1>2, <1>3, <1>4, <1>5, <1>6 DEF Next

\* ResolverChain, FixedCapabilityProvider and CapabilitySession keep the invariant.
THEOREM CapabilityCorrect == Spec => []CapabilityInv
BY CapabilityInit, CapabilityNext, PTL DEF Spec

\* BindingRegistry.publish never reuses a number, ResolverChain copies a foreign set into
\* the shared registry, and CapabilitySession carries keys over: a tool of any snapshot is
\* routed to the backend selected for it.
THEOREM RoutingCorrect == Spec => []RoutedAsSelected
<1>1. CapabilityInv => RoutedAsSelected BY DEF CapabilityInv, RouteInv, RoutedAsSelected
<1> QED BY <1>1, CapabilityCorrect, PTL

\* Only a granted selection starts a run, and it is the last answer of the chain.
LEMMA AnswersStep ==
    ASSUME CapabilityInv, OnlyNoMatchContinues, [Next]_vars PROVE OnlyNoMatchContinues'
<1>1. CASE UNCHANGED vars BY <1>1 DEF vars, OnlyNoMatchContinues
<1>2. ASSUME NEW r \in Runs, BeginResolve(r) \/ HostDeclines(r) \/ Activate(r) \/ Replace(r),
             NEW q \in Runs, phase'[q] = "running"
      PROVE  phase[q] = "running" /\ answers'[q] = answers[q]
  <2>1. phase \in [Runs -> {"new", "resolving", "running", "failed"}] /\ answers \in [Runs -> Seq(Kinds)]
      BY DEF CapabilityInv, CapabilityTypes
  <2>2. CASE BeginResolve(r) BY <1>2, <2>1, <2>2 DEF BeginResolve
  <2>3. CASE HostDeclines(r)
    <3>1. PICK kind \in Kinds : answers' = [answers EXCEPT ![r] = Append(@, kind)]
        BY <2>3 DEF HostDeclines, Answered
    <3>2. phase[r] = "resolving" /\ (phase' = phase \/ phase' = [phase EXCEPT ![r] = "failed"])
        BY <2>3 DEF HostDeclines, GoesOn
    <3>3. q # r BY <1>2, <2>1, <3>2
    <3> QED BY <1>2, <2>1, <3>1, <3>2, <3>3
  <2>4. CASE Activate(r) \/ Replace(r)
    <3>1. \A tools, extra : SessionPublishes(r, tools, extra) => UNCHANGED <<phase, answers>>
        BY DEF SessionPublishes
    <3>2. UNCHANGED <<phase, answers>> BY <2>4, <3>1 DEF Activate, Replace
    <3> QED BY <1>2, <3>2
  <2> QED BY <1>2, <2>2, <2>3, <2>4
<1>3. ASSUME NEW r \in Runs, FixedAnswers(r) \/ HostGrants(r) PROVE OnlyNoMatchContinues'
  <2>1. PICK kind \in {"matched", "degraded"} :
            /\ phase[r] = "resolving" /\ answers' = [answers EXCEPT ![r] = Append(@, kind)]
            /\ phase' = [phase EXCEPT ![r] = "running"]
    <3>1. CASE FixedAnswers(r) BY <3>1 DEF FixedAnswers, Answered, Starts
    <3>2. CASE HostGrants(r) BY <3>2 DEF HostGrants, Answered, Starts
    <3> QED BY <1>3, <3>1, <3>2
  <2>2. answers \in [Runs -> Seq(Kinds)] /\ phase \in [Runs -> {"new", "resolving", "running", "failed"}]
      BY DEF CapabilityInv, CapabilityTypes
  <2>3. \A k \in DOMAIN answers[r] : answers[r][k] = "no_match" BY <2>1 DEF CapabilityInv, ResolveInv
  <2>4. answers'[r] = Append(answers[r], kind) /\ answers[r] \in Seq(Kinds) BY <2>1, <2>2
  <2>5. /\ answers'[r][Len(answers'[r])] \in {"matched", "degraded"}
        /\ \A k \in 1 .. Len(answers'[r]) - 1 : answers'[r][k] = "no_match"
    BY <2>3, <2>4
  <2>6. \A q \in Runs : q # r => answers'[q] = answers[q] /\ phase'[q] = phase[q] BY <2>1, <2>2
  <2> QED BY <2>5, <2>6 DEF OnlyNoMatchContinues
<1>4. ASSUME NEW r \in Runs, BeginResolve(r) \/ HostDeclines(r) \/ Activate(r) \/ Replace(r)
      PROVE  OnlyNoMatchContinues'
    BY <1>2, <1>4 DEF OnlyNoMatchContinues
<1> QED BY <1>1, <1>3, <1>4 DEF Next

\* ResolverChain.resolve stops at the first answer that is not "no_match", and
\* accept_resolution starts a run with a granted one only.
THEOREM ChainCorrect == Spec => []OnlyNoMatchContinues
<1>1. Init => OnlyNoMatchContinues BY DEF Init, OnlyNoMatchContinues
<1> QED BY <1>1, AnswersStep, CapabilityCorrect, PTL DEF Spec

=============================================================================
