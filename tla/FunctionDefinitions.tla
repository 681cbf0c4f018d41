------------------------- MODULE FunctionDefinitions -------------------------
(***************************************************************************)
(* The definitions of gravitino_function: a list of definitions, each with   *)
(* its parameters (by which Gravitino tells definitions apart), what it       *)
(* returns and a list of implementations, one per runtime.  How two lists     *)
(* are turned into update requests, what Gravitino makes of them in their     *)
(* order, and how its answer is merged into the state.                       *)
(***************************************************************************)
EXTENDS TerraformValues, Sequences, Integers
LOCAL INSTANCE SequencesExt

\* sortedImplKeys: the runtimes in the order their names sort in.
Runtimes == <<"spark", "trino">>

Signature(d) == d.params
Shape(d) == <<d.params, d.returns>>

\* indexDefinitions and indexImpls.
HasDefinition(defs, d) == \E i \in DOMAIN defs : Signature(defs[i]) = Signature(d)
DefinitionOf(defs, d) == SelectSeq(defs, LAMBDA x : Signature(x) = Signature(d))[1]
HasImpl(impls, r) == \E i \in DOMAIN impls : impls[i].runtime = r
ImplOf(impls, r) == SelectSeq(impls, LAMBDA x : x.runtime = r)[1]

SameShape(defs, d) == HasDefinition(defs, d) /\ Shape(DefinitionOf(defs, d)) = Shape(d)

Request(op, d, v) == [op |-> op, params |-> Signature(d), value |-> v]

\* implementationUpdates: removed and changed ones first, then the new ones.
ImplementationUpdates(pd, sd) ==
  LET old == SelectSeq(Runtimes, LAMBDA r : HasImpl(sd.impls, r))
      stale == SelectSeq(old, LAMBDA r : \/ ~HasImpl(pd.impls, r)
                                         \/ ImplOf(pd.impls, r) # ImplOf(sd.impls, r))
      new == SelectSeq(Runtimes, LAMBDA r : HasImpl(pd.impls, r) /\ ~HasImpl(sd.impls, r))
  IN [i \in DOMAIN stale |->
        IF HasImpl(pd.impls, stale[i])
        THEN Request("updateImpl", pd, ImplOf(pd.impls, stale[i]))
        ELSE Request("removeImpl", pd, [runtime |-> stale[i]])]
     \o [i \in DOMAIN new |-> Request("addImpl", pd, ImplOf(pd.impls, new[i]))]

\* definitionUpdates: what goes or changes its shape is removed before anything is
\* added.  A mutation run adds first.
Removals(p, s) ==
  LET gone == SelectSeq(s, LAMBDA d : ~SameShape(p, d))
  IN [i \in DOMAIN gone |-> Request("removeDefinition", gone[i], Null)]
Additions(p, s) ==
  FlattenSeq([i \in DOMAIN p |->
    IF SameShape(s, p[i]) THEN ImplementationUpdates(p[i], DefinitionOf(s, p[i]))
    ELSE <<Request("addDefinition", p[i], p[i])>>])
DefinitionUpdatesAddedFirst(p, s) == Additions(p, s) \o Removals(p, s)
DefinitionUpdates(p, s) == Removals(p, s) \o Additions(p, s)

\* Gravitino refuses the whole list when one request of it cannot be carried out:
\* an addition of what is there, or anything asked of what is not.
ImplUpdated(impls, u) ==
  CASE u.op = "addImpl"    -> Append(impls, u.value)
    [] u.op = "removeImpl" -> SelectSeq(impls, LAMBDA x : x.runtime # u.value.runtime)
    [] OTHER -> [i \in DOMAIN impls |->
                   IF impls[i].runtime = u.value.runtime THEN u.value ELSE impls[i]]
DefinitionUpdated(defs, u) ==
  LET there == HasDefinition(defs, u)
      impl == there /\ HasImpl(DefinitionOf(defs, u).impls, u.value.runtime)
  IN IF defs = Null \/ (u.op = "addDefinition") = there THEN Null
     ELSE CASE u.op = "addDefinition"    -> Append(defs, u.value)
            [] u.op = "removeDefinition" -> SelectSeq(defs, LAMBDA d : d.params # u.params)
            [] OTHER -> IF impl = (u.op = "addImpl") THEN Null
                        ELSE [i \in DOMAIN defs |->
                                IF defs[i].params # u.params THEN defs[i]
                                ELSE [defs[i] EXCEPT !.impls = ImplUpdated(@, u)]]
DefinitionsAfter(defs, updates) == FoldLeft(DefinitionUpdated, defs, updates)

-----------------------------------------------------------------------------
(* The answer.  fromPlan: after an apply the plan decides what is written and in *)
(* which order; on a refresh the server does, and the state only says in which   *)
(* order.                                                                      *)

\* functionImplsToTF
MapImpls(v, previous, fromPlan) ==
  LET kept == SelectSeq(previous, LAMBDA x : fromPlan \/ HasImpl(v, x.runtime))
      extra == SelectSeq(v, LAMBDA x : ~HasImpl(previous, x.runtime))
  IN [i \in DOMAIN kept |-> IF HasImpl(v, kept[i].runtime)
                            THEN ImplOf(v, kept[i].runtime) ELSE kept[i]]
     \o (IF fromPlan /\ previous # <<>> THEN <<>> ELSE extra)

\* mapFunctionDefinitions
MapDefinitions(v, previous, fromPlan) ==
  LET kept == SelectSeq(previous, LAMBDA x : fromPlan \/ HasDefinition(v, x))
      extra == SelectSeq(v, LAMBDA x : ~HasDefinition(previous, x))
      mapped(x) == IF ~HasDefinition(v, x) THEN x
                   ELSE [DefinitionOf(v, x) EXCEPT !.impls = MapImpls(@, x.impls, fromPlan)]
  IN [i \in DOMAIN kept |-> mapped(kept[i])] \o (IF fromPlan THEN <<>> ELSE extra)
=============================================================================
