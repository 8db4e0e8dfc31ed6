----------------------------- MODULE Capabilities -----------------------------
(***************************************************************************)
(* How a run gets its tools and which backend executes them                *)
(* (capabilities/providers.py, and accept_resolution and _binding_registry *)
(* of runner.py): BindingRegistry, FixedCapabilityProvider, ResolverChain  *)
(* and CapabilitySession.  The runs of one runtime resolve through one     *)
(* chain, at the same time, and publish into the registry they share.      *)
(*                                                                         *)
(* Every registry numbers its binding sets from 1, so a number says        *)
(* nothing without its registry, and execution always looks into the       *)
(* runtime's.  A provider is fixed, or the host's own, which may answer    *)
(* anything and publish a binding set for a run.                           *)
(*                                                                         *)
(* Data: a tool is its name, a binding set a function from names to        *)
(* invoker keys, a version "cap-n" its number.                             *)
(***************************************************************************)
EXTENDS Integers, Sequences, FiniteSets

CONSTANTS
    Runs, Tools, Keys,
    Registries,
    Chain,          \* the providers: [registry, fixed], see Provider
    Explicit,       \* the registry given to chain and runtime, or made by a chain whose
                    \* providers have none; "none": the first provider's is used
    HostVersions,   \* versions the host's snapshots have
    MaxSets         \* bound: binding sets in a registry

Default == "default"
None    == "none"

\* The binding sets: partial functions from tools to keys.
Bindings == UNION {[ts -> Keys] : ts \in SUBSET Tools}

\* registry: the one a BindingSource publishes in, or "none" when the provider is no
\* BindingSource; fixed: the bindings of a FixedCapabilityProvider, or <<>> for one of
\* the host's.
Provider == [registry : Registries \cup {None}, fixed : Bindings]

IsFixed(p) == p.fixed # <<>>

\* The first provider that is a BindingSource.
FirstSource(k) == Chain[k].registry # None /\ \A j \in 1 .. k - 1 : Chain[j].registry = None

ASSUME Setup ==
    /\ Default \in Keys /\ None \notin Registries
    /\ Chain \in Seq(Provider) /\ \A k \in DOMAIN Chain : IsFixed(Chain[k]) => Chain[k].registry # None
    /\ Explicit \in Registries \cup {None}
    /\ Chain # <<>> /\ (Explicit # None \/ \E k \in DOMAIN Chain : FirstSource(k))
    /\ HostVersions \subseteq Int /\ MaxSets \in Nat

Kinds == {"matched", "no_match", "degraded", "rejected", "config_error"}

VARIABLES
    tables,     \* the binding sets of each registry, in the order of their publication
    phase,      \* of a run: "new", "resolving", "running", "failed"
    at,         \* the provider a run is waiting for
    answers,    \* the kinds a run was answered
    current,    \* the session's snapshot: [version, tools, ref]
    seq,        \* the session's _seq
    history     \* the snapshots of a run so far, each with the keys selected for it

vars == <<tables, phase, at, answers, current, seq, history>>

-----------------------------------------------------------------------------
(* BindingRegistry *)

\* The registry of the first BindingSource, unless one is given (ResolverChain.__init__,
\* _binding_registry).
Shared ==
    IF Explicit # None THEN Explicit
    ELSE Chain[CHOOSE k \in DOMAIN Chain : FirstSource(k)].registry

\* publish returns the number of the new set.
Publish(tabs, g, mapping) == [tabs EXCEPT ![g] = Append(@, mapping)]
LastRef(tabs, g) == Len(tabs[g])

HasRoom(g) == Len(tables[g]) < MaxSets

-----------------------------------------------------------------------------
(* ResolverChain.resolve, FixedCapabilityProvider.resolve *)

\* The fixed providers of a registry publish when they are made, in the order of the chain.
FixedOf(g) == {k \in DOMAIN Chain : IsFixed(Chain[k]) /\ Chain[k].registry = g}
FixedRef(g, k) == Cardinality({j \in FixedOf(g) : j <= k})
FixedTable(g) == [n \in 1 .. Cardinality(FixedOf(g)) |->
                    Chain[CHOOSE k \in FixedOf(g) : FixedRef(g, k) = n].fixed]

BeginResolve(r) ==
    /\ phase[r] = "new"
    /\ phase' = [phase EXCEPT ![r] = "resolving"]
    /\ UNCHANGED <<tables, at, answers, current, seq, history>>

\* Mutant: whatever is no match goes on to the next provider.
ContinuesUnlessMatched(kind) == kind # "matched"

Continues(kind) == kind = "no_match"

\* The next provider, or, at the end, the failure of accept_resolution.
GoesOn(r) ==
    /\ IF at[r] < Len(Chain) THEN at' = [at EXCEPT ![r] = @ + 1] /\ UNCHANGED phase
       ELSE phase' = [phase EXCEPT ![r] = "failed"] /\ UNCHANGED at
    /\ UNCHANGED <<tables, current, seq, history>>

\* Mutant: the number is taken over without its binding set.
AdoptNumber(tabs, p, ref) == [tabs |-> tabs, ref |-> ref]

\* A set of another registry is published again in the shared one.
Adopt(tabs, p, ref) ==
    IF p.registry \in {None, Shared} THEN [tabs |-> tabs, ref |-> ref]
    ELSE LET copied == Publish(tabs, Shared, tabs[p.registry][ref])
         IN  [tabs |-> copied, ref |-> LastRef(copied, Shared)]

\* accept_resolution and CapabilitySession.__init__: a run starts with what was selected.
Starts(r, tabs, version, mapping, p, ref) ==
    LET adopted == Adopt(tabs, p, ref)
        snap    == [version |-> version, tools |-> DOMAIN mapping, ref |-> adopted.ref]
    IN  /\ tables' = adopted.tabs
        /\ phase' = [phase EXCEPT ![r] = "running"]
        /\ current' = [current EXCEPT ![r] = snap]
        /\ history' = [history EXCEPT ![r] = @ \cup {[snap |-> snap, keys |-> mapping]}]
        /\ UNCHANGED <<at, seq>>

Answered(r, kind) == answers' = [answers EXCEPT ![r] = Append(@, kind)]

FixedAnswers(r) ==
    LET k == at[r]
        p == Chain[k]
    IN  /\ phase[r] = "resolving" /\ IsFixed(p) /\ HasRoom(Shared)
        /\ Answered(r, "matched")
        /\ Starts(r, tables, 1, p.fixed, p, FixedRef(p.registry, k))

\* The host's provider grants tools: it publishes a binding set for this run, in its
\* own registry, or, if it is no BindingSource, in the one it shares with the runtime.
HostGrants(r) ==
    LET p == Chain[at[r]]
        g == IF p.registry = None THEN Shared ELSE p.registry
    IN  /\ phase[r] = "resolving" /\ ~IsFixed(p) /\ HasRoom(g) /\ HasRoom(Shared)
        /\ \E kind \in {"matched", "degraded"}, mapping \in Bindings, version \in HostVersions :
              LET tabs == Publish(tables, g, mapping) IN
              /\ Answered(r, kind)
              /\ Starts(r, tabs, version, mapping, p, LastRef(tabs, g))

\* It answers without a snapshot, or with a kind that is a failure.
HostDeclines(r) ==
    /\ phase[r] = "resolving" /\ ~IsFixed(Chain[at[r]])
    /\ \E kind \in Kinds :
          /\ Answered(r, kind)
          /\ IF Continues(kind) THEN GoesOn(r)
             ELSE phase' = [phase EXCEPT ![r] = "failed"] /\ UNCHANGED <<tables, at, current, seq, history>>

-----------------------------------------------------------------------------
(* CapabilitySession *)

Merge(f, g) == [t \in DOMAIN f \cup DOMAIN g |-> IF t \in DOMAIN g THEN g[t] ELSE f[t]]
KeyIn(f, t) == IF t \in DOMAIN f THEN f[t] ELSE Default

\* The new binding set: tools that are kept keep their keys, others get the default,
\* and what is given explicitly wins.
Published(previous, tools, extra) == Merge([t \in tools |-> KeyIn(previous, t)], extra)

\* The session counts from 1, whatever version the resolved snapshot has.
NextVersion(r) == seq[r] + 1

KeysOf(r) == (CHOOSE h \in history[r] : h.snap = current[r]).keys

SessionPublishes(r, tools, extra) ==
    LET mapping == Published(tables[Shared][current[r].ref], tools, extra)
        tabs    == Publish(tables, Shared, mapping)
        snap    == [version |-> NextVersion(r), tools |-> tools, ref |-> LastRef(tabs, Shared)]
        keys    == [t \in tools \cup DOMAIN extra |-> IF t \in DOMAIN extra THEN extra[t] ELSE KeyIn(KeysOf(r), t)]
    IN  /\ phase[r] = "running" /\ HasRoom(Shared)
        /\ tables' = tabs
        /\ seq' = [seq EXCEPT ![r] = @ + 1]
        /\ current' = [current EXCEPT ![r] = snap]
        /\ history' = [history EXCEPT ![r] = @ \cup {[snap |-> snap, keys |-> keys]}]
        /\ UNCHANGED <<phase, at, answers>>

\* A tool's outcome activates tools (DefaultResultPolicy.apply).
Activate(r) == \E extra \in SUBSET Tools \ {{}} : SessionPublishes(r, current[r].tools \cup extra, <<>>)

\* A host's port replaces the tools and may bind some explicitly.
Replace(r) == \E tools \in SUBSET Tools, extra \in Bindings : SessionPublishes(r, tools, extra)

-----------------------------------------------------------------------------

Init ==
    /\ tables = [g \in Registries |-> FixedTable(g)]
    /\ phase = [r \in Runs |-> "new"] /\ at = [r \in Runs |-> 1]
    /\ answers = [r \in Runs |-> <<>>]
    /\ current = [r \in Runs |-> [version |-> 0, tools |-> {}, ref |-> 0]]
    /\ seq = [r \in Runs |-> 1] /\ history = [r \in Runs |-> {}]

Next ==
    \E r \in Runs : \/ BeginResolve(r) \/ FixedAnswers(r) \/ HostGrants(r) \/ HostDeclines(r)
                    \/ Activate(r) \/ Replace(r)

Spec == Init /\ [][Next]_vars

-----------------------------------------------------------------------------
(* Properties *)

\* Every tool of every snapshot a run has had is bound, in the registry execution looks
\* into, to the backend that was selected for this run, whatever other runs resolve,
\* activate and publish, whichever registry the selection came from, and after any
\* number of updates.
RoutedAsSelected ==
    \A r \in Runs : \A h \in history[r] :
        /\ h.snap.ref \in DOMAIN tables[Shared]
        /\ \A t \in h.snap.tools : LET table == tables[Shared][h.snap.ref] IN
              t \in DOMAIN table /\ table[t] = h.keys[t]

\* A run has tools only if every provider before the one that granted them said it had
\* no match: a rejection, a configuration error or a degraded grant is final.
OnlyNoMatchContinues ==
    \A r \in Runs : phase[r] = "running" =>
        /\ answers[r][Len(answers[r])] \in {"matched", "degraded"}
        /\ \A k \in 1 .. Len(answers[r]) - 1 : answers[r][k] = "no_match"

-----------------------------------------------------------------------------
(* The inductive invariants behind the properties *)

Snapshot == [version : Int, tools : SUBSET Tools, ref : Nat]

CapabilityTypes ==
    /\ tables \in [Registries -> Seq(Bindings)]
    /\ phase \in [Runs -> {"new", "resolving", "running", "failed"}]
    /\ at \in [Runs -> DOMAIN Chain] /\ answers \in [Runs -> Seq(Kinds)]
    /\ current \in [Runs -> Snapshot] /\ seq \in [Runs -> Nat \ {0}]
    /\ history \in [Runs -> SUBSET [snap : Snapshot, keys : Bindings]]

\* What the fixed providers published stays where they published it.
FixedInv ==
    \A k \in DOMAIN Chain : IsFixed(Chain[k]) =>
        LET g == Chain[k].registry
            n == FixedRef(g, k)
        IN  n \in DOMAIN tables[g] /\ tables[g][n] = Chain[k].fixed

\* The whole binding set of a snapshot is the selection it was published for, and the
\* session's own snapshot is one of them.
RouteInv ==
    /\ \A r \in Runs : \A h \in history[r] :
          /\ h.snap.ref \in DOMAIN tables[Shared] /\ tables[Shared][h.snap.ref] = h.keys
          /\ h.snap.tools \subseteq DOMAIN h.keys
    /\ \A r \in Runs : phase[r] = "running" => \E h \in history[r] : h.snap = current[r]

\* Before it runs, a run has no snapshot and was answered nothing but "no_match".
ResolveInv ==
    \A r \in Runs : phase[r] \in {"new", "resolving"} =>
        /\ history[r] = {}
        /\ \A k \in DOMAIN answers[r] : answers[r][k] = "no_match"

CapabilityInv == CapabilityTypes /\ FixedInv /\ RouteInv /\ ResolveInv

=============================================================================
