------------------------------ MODULE Compile ------------------------------
(***************************************************************************)
(* NewContainer: Container.compile and topoSort (container.go:40-407), run *)
(* while other goroutines register definitions (registry.go:36-101).       *)
(*                                                                         *)
(* pc   scan    one turn per spec: validate, look up, decode, list deps    *)
(*      edges   one turn per node: every dependency must exist             *)
(*      sort    depth-first search, one step per thing the search does     *)
(*      done    the container is returned; error: err is returned          *)
(*                                                                         *)
(* A definition whose comment begins with "Faulty:" is not part of the     *)
(* specification: it is the definition after it with a bug, and shows that *)
(* the properties tell the two apart.                                      *)
(***************************************************************************)
EXTENDS Integers, SequencesExt

CONSTANTS
  IDs,            \* every ID a spec or a dependency may have
  Drivers,        \* driver names
  Definitions,    \* what Register is given: hooks, as a whole
  SpecLists,      \* the spec lists NewContainer may be called with
  InitialDefs,    \* the registries it may be called with
  Registrations   \* the <<kind, driver, definition>> that others register

\* A spec, with what the definition's hooks make of its options.
SpecType == [id : IDs, driver : Drivers, decodes : BOOLEAN, lists : BOOLEAN,
             deps : Seq(IDs)]

ASSUME SpecListsAssumption == SpecLists \subseteq Seq(SpecType)

ASSUME DefinitionsAssumption ==
  /\ \A ds \in InitialDefs : \A k \in DOMAIN ds : ds[k] \in Definitions
  /\ \A r \in Registrations : r[3] \in Definitions

VARIABLES
  defs,    \* Registry.defs: <<kind, driver>> to definition
  specs,   \* the argument of NewContainer
  pc,      \* where compile is
  at,      \* index of its loop over specs, and then of those over order
  nodes,   \* c.nodes: key to compiled node
  order,   \* the IDs in the order of their specs
  edges,   \* the <<from, to>> of every dependency looked up so far
  mark,    \* topoSort's state: key to new, visiting or done
  stack,   \* the calls of dfs that have not returned, innermost last
  topo,    \* the finished nodes, in the order they finished
  err      \* the error returned

vars == <<defs, specs, pc, at, nodes, order, edges, mark, stack, topo, err>>

-----------------------------------------------------------------------------
\* ID.String (types.go:16-18): the key of a node, of its mark, of its instance.
String(id) == id.kind \o "/" \o id.name

Keys == {String(id) : id \in IDs}

ValidID(id) == id.kind # "" /\ id.name # ""

Marks == {"new", "visiting", "done"}

NoError == [kind |-> "none", path |-> <<>>]

Error(kind, path) == [kind |-> kind, path |-> path]

DepsOf(id) == nodes[String(id)].deps

\* The call of dfs that is running, and the dependency it looks at.
Top == stack[Len(stack)]
TopDep == DepsOf(Top.id)[Top.next]

Call(id) == [id |-> id, next |-> 1]

-----------------------------------------------------------------------------
Init ==
  /\ defs \in InitialDefs
  /\ specs \in SpecLists
  /\ pc = "scan"
  /\ at = 1
  /\ nodes = <<>>
  /\ order = <<>>
  /\ edges = <<>>
  /\ mark = [k \in Keys |-> "new"]
  /\ stack = <<>>
  /\ topo = <<>>
  /\ err = NoError

\* Faulty: the later registration replaces the earlier one.
RegisterOver(kind, driver, def) ==
  /\ kind # "" /\ driver # ""
  /\ defs' = [k \in DOMAIN defs \union {<<kind, driver>>} |->
                IF k = <<kind, driver>> THEN def ELSE defs[k]]
  /\ UNCHANGED <<specs, pc, at, nodes, order, edges, mark, stack, topo, err>>

\* Another goroutine's Register that succeeds (registry.go:92-100); one that
\* fails changes nothing.
Register(kind, driver, def) ==
  /\ kind # "" /\ driver # ""
  /\ <<kind, driver>> \notin DOMAIN defs
  /\ defs' = [k \in DOMAIN defs \union {<<kind, driver>>} |->
                IF k = <<kind, driver>> THEN def ELSE defs[k]]
  /\ UNCHANGED <<specs, pc, at, nodes, order, edges, mark, stack, topo, err>>

-----------------------------------------------------------------------------
(***************************************************************************)
(* compile.                                                                *)
(***************************************************************************)

\* Faulty: a key that is there already is overwritten.
ChecksWithoutDuplicate(s) == <<
  [ok |-> ValidID(s.id),                          kind |-> "InvalidID"],
  [ok |-> s.driver # "",                          kind |-> "EmptyDriver"],
  [ok |-> <<s.id.kind, s.driver>> \in DOMAIN defs, kind |-> "DefinitionNotFound"],
  [ok |-> s.decodes,                              kind |-> "DecodeFailed"],
  [ok |-> s.lists,                                kind |-> "DepsFailed"],
  [ok |-> \A d \in ToSet(s.deps) : ValidID(d),    kind |-> "InvalidDependency"] >>

\* What compile requires of a spec, in the order in which it asks.
Checks(s) == <<
  [ok |-> ValidID(s.id),                          kind |-> "InvalidID"],
  [ok |-> s.driver # "",                          kind |-> "EmptyDriver"],
  [ok |-> String(s.id) \notin DOMAIN nodes,       kind |-> "DuplicateNode"],
  [ok |-> <<s.id.kind, s.driver>> \in DOMAIN defs, kind |-> "DefinitionNotFound"],
  [ok |-> s.decodes,                              kind |-> "DecodeFailed"],
  [ok |-> s.lists,                                kind |-> "DepsFailed"],
  [ok |-> \A d \in ToSet(s.deps) : ValidID(d),    kind |-> "InvalidDependency"] >>

Failing(s) == {i \in DOMAIN Checks(s) : ~Checks(s)[i].ok}

Reject(e) ==
  /\ err' = e
  /\ pc' = "error"
  /\ UNCHANGED <<defs, specs, at, nodes, order, edges, mark, stack, topo>>

RejectSpec ==
  /\ pc = "scan" /\ at <= Len(specs)
  /\ \E i \in Failing(specs[at]) :
       /\ \A j \in Failing(specs[at]) : i <= j
       /\ Reject(Error(Checks(specs[at])[i].kind, <<specs[at].id>>))

AcceptSpec ==
  /\ pc = "scan" /\ at <= Len(specs) /\ Failing(specs[at]) = {}
  /\ LET s == specs[at]
     IN /\ nodes' = [k \in DOMAIN nodes \union {String(s.id)} |->
                       IF k = String(s.id)
                         THEN [id |-> s.id, driver |-> s.driver, deps |-> s.deps,
                               def |-> defs[<<s.id.kind, s.driver>>]]
                         ELSE nodes[k]]
        /\ order' = Append(order, s.id)
  /\ at' = at + 1
  /\ UNCHANGED <<defs, specs, pc, edges, mark, stack, topo, err>>

EndScan ==
  /\ pc = "scan" /\ at > Len(specs)
  /\ pc' = "edges" /\ at' = 1
  /\ UNCHANGED <<defs, specs, nodes, order, edges, mark, stack, topo, err>>

MissingDeps(id) == {i \in DOMAIN DepsOf(id) : String(DepsOf(id)[i]) \notin DOMAIN nodes}

RejectNode ==
  /\ pc = "edges" /\ at <= Len(order)
  /\ \E i \in MissingDeps(order[at]) :
       /\ \A j \in MissingDeps(order[at]) : i <= j
       /\ Reject(Error("DependencyNotFound", <<order[at], DepsOf(order[at])[i]>>))

EdgesFrom(id) == [i \in DOMAIN DepsOf(id) |-> <<id, DepsOf(id)[i]>>]

\* Faulty: only the first dependency of a node is looked up.
AcceptNodeByFirst ==
  /\ pc = "edges" /\ at <= Len(order)
  /\ 1 \notin MissingDeps(order[at])
  /\ edges' = edges \o EdgesFrom(order[at])
  /\ at' = at + 1
  /\ UNCHANGED <<defs, specs, pc, nodes, order, mark, stack, topo, err>>

AcceptNode ==
  /\ pc = "edges" /\ at <= Len(order) /\ MissingDeps(order[at]) = {}
  /\ edges' = edges \o EdgesFrom(order[at])
  /\ at' = at + 1
  /\ UNCHANGED <<defs, specs, pc, nodes, order, mark, stack, topo, err>>

EndEdges ==
  /\ pc = "edges" /\ at > Len(order)
  /\ pc' = "sort" /\ at' = 1
  /\ UNCHANGED <<defs, specs, nodes, order, edges, mark, stack, topo, err>>

-----------------------------------------------------------------------------
(***************************************************************************)
(* topoSort.                                                               *)
(***************************************************************************)
Visit(id) ==
  /\ stack' = Append(stack, Call(id))
  /\ mark' = [mark EXCEPT ![String(id)] = "visiting"]
  /\ UNCHANGED <<defs, specs, pc, nodes, order, edges, topo, err>>

\* The loop over order (container.go:398-405).
SkipRoot ==
  /\ pc = "sort" /\ stack = <<>> /\ at <= Len(order)
  /\ mark[String(order[at])] = "done"
  /\ at' = at + 1
  /\ UNCHANGED <<defs, specs, pc, nodes, order, edges, mark, stack, topo, err>>

VisitRoot ==
  /\ pc = "sort" /\ stack = <<>> /\ at <= Len(order)
  /\ mark[String(order[at])] # "done"
  /\ Visit(order[at])
  /\ at' = at + 1

InLoop == pc = "sort" /\ stack # <<>> /\ Top.next <= Len(DepsOf(Top.id))

\* stackPos: the place of a visiting node on the stack.
StackPos(k) == CHOOSE i \in DOMAIN stack : String(stack[i].id) = k

IDsFrom(i) == [j \in 1 .. Len(stack) - i + 1 |-> stack[i + j - 1].id]

\* Faulty: the path starts at the root of the search, not at the cycle.
FoundCycleFromRoot ==
  /\ InLoop /\ mark[String(TopDep)] = "visiting"
  /\ Reject(Error("CycleDetected", Append(IDsFrom(1), TopDep)))

FoundCycle ==
  /\ InLoop /\ mark[String(TopDep)] = "visiting"
  /\ Reject(Error("CycleDetected",
                  Append(IDsFrom(StackPos(String(TopDep))), TopDep)))

\* Faulty: a dependency that is being visited counts as done.
SkipVisited ==
  /\ InLoop /\ mark[String(TopDep)] # "new"
  /\ stack' = [stack EXCEPT ![Len(stack)].next = @ + 1]
  /\ UNCHANGED <<defs, specs, pc, at, nodes, order, edges, mark, topo, err>>

\* dfs returns at once for a node that is done (container.go:363-364).
SkipDone ==
  /\ InLoop /\ mark[String(TopDep)] = "done"
  /\ stack' = [stack EXCEPT ![Len(stack)].next = @ + 1]
  /\ UNCHANGED <<defs, specs, pc, at, nodes, order, edges, mark, topo, err>>

VisitDep ==
  /\ InLoop /\ mark[String(TopDep)] = "new"
  /\ Visit(TopDep)
  /\ at' = at

\* The caller's stack once its nested dfs has returned nil.
Resumed(s) == IF s = <<>> THEN s ELSE [s EXCEPT ![Len(s)].next = @ + 1]

\* Faulty: the node is listed in front of what it needs.
LeaveNodeFirst ==
  /\ pc = "sort" /\ stack # <<>> /\ Top.next > Len(DepsOf(Top.id))
  /\ stack' = Resumed(Front(stack))
  /\ mark' = [mark EXCEPT ![String(Top.id)] = "done"]
  /\ topo' = <<Top.id>> \o topo
  /\ UNCHANGED <<defs, specs, pc, at, nodes, order, edges, err>>

LeaveNode ==
  /\ pc = "sort" /\ stack # <<>> /\ Top.next > Len(DepsOf(Top.id))
  /\ stack' = Resumed(Front(stack))
  /\ mark' = [mark EXCEPT ![String(Top.id)] = "done"]
  /\ topo' = Append(topo, Top.id)
  /\ UNCHANGED <<defs, specs, pc, at, nodes, order, edges, err>>

\* Faulty: only the first root is searched from.
EndSortAfterFirst ==
  /\ pc = "sort" /\ stack = <<>>
  /\ at > Len(order) \/ at = 2
  /\ pc' = "done"
  /\ UNCHANGED <<defs, specs, at, nodes, order, edges, mark, stack, topo, err>>

EndSort ==
  /\ pc = "sort" /\ stack = <<>> /\ at > Len(order)
  /\ pc' = "done"
  /\ UNCHANGED <<defs, specs, at, nodes, order, edges, mark, stack, topo, err>>

-----------------------------------------------------------------------------
CompileStep ==
  \/ RejectSpec \/ AcceptSpec \/ EndScan
  \/ RejectNode \/ AcceptNode \/ EndEdges
  \/ SkipRoot \/ VisitRoot \/ FoundCycle \/ SkipDone \/ VisitDep \/ LeaveNode
  \/ EndSort

Returned == pc \in {"done", "error"} /\ UNCHANGED vars

Next ==
  \/ CompileStep
  \/ \E r \in Registrations : Register(r[1], r[2], r[3])
  \/ Returned

Spec == Init /\ [][Next]_vars

-----------------------------------------------------------------------------
(***************************************************************************)
(* Properties.                                                             *)
(***************************************************************************)
NodeType == [id : IDs, driver : Drivers, deps : Seq(IDs), def : Definitions]

CallType == [id : IDs, next : Nat \ {0}]

\* The shape of the state: c.nodes holds compiled specs, and the search visits
\* declared nodes only (c.nodes[key] of container.go:377 is never nil).
TypeOK ==
  /\ \A k \in DOMAIN defs : defs[k] \in Definitions
  /\ specs \in Seq(SpecType)
  /\ pc \in {"scan", "edges", "sort", "done", "error"}
  /\ at \in Nat \ {0}
  /\ DOMAIN nodes \subseteq Keys
  /\ \A k \in DOMAIN nodes : nodes[k] \in NodeType
  /\ order \in Seq(IDs)
  /\ edges \in Seq(IDs \X IDs)
  /\ mark \in [Keys -> Marks]
  /\ stack \in Seq(CallType)
  /\ \A i \in DOMAIN stack : String(stack[i].id) \in DOMAIN nodes
  /\ topo \in Seq(IDs)
  /\ \A i \in DOMAIN topo : String(topo[i]) \in DOMAIN nodes

KeyAt(i) == String(topo[i])

\* topoSort lists every node after all it depends on, and once: what Resolve
\* (container.go:103) and closeWithKeys (container.go:219) rely on.
TopoOrdered ==
  /\ \A i, j \in 1 .. Len(topo) : KeyAt(i) = KeyAt(j) => i = j
  /\ \A i \in 1 .. Len(topo) : \A d \in ToSet(DepsOf(topo[i])) :
       \E j \in 1 .. i - 1 : KeyAt(j) = String(d)

\* A container that is returned has every node in its topological order.  Close
\* walks that order (container.go:219): a node that is missing is never closed.
TopoComplete ==
  pc = "done" => DOMAIN nodes = {KeyAt(i) : i \in 1 .. Len(topo)}

\* The path of a CycleDetectedError (container.go:381-384) is one: it follows
\* dependency edges, ends where it begins, and meets no other node twice.
CycleIsReal ==
  err.kind = "CycleDetected" =>
    LET p == err.path
    IN /\ Len(p) >= 2 /\ String(p[1]) = String(p[Len(p)])
       /\ \A i \in 1 .. Len(p) - 1 : p[i + 1] \in ToSet(DepsOf(p[i]))
       /\ \A i, j \in 1 .. Len(p) - 1 : String(p[i]) = String(p[j]) => i = j

\* A list of specs that can be orchestrated, said without the algorithm.
IsSpecID(ss, d) == \E i \in DOMAIN ss : ss[i].id = d

Acyclic(ss) ==
  \A S \in SUBSET DOMAIN ss : S # {} =>
    \E i \in S : \A j \in S : ss[j].id \notin ToSet(ss[i].deps)

WellFormed(s) ==
  /\ ValidID(s.id) /\ s.driver # "" /\ s.decodes /\ s.lists
  /\ \A d \in ToSet(s.deps) : ValidID(d)

Defined(s) == <<s.id.kind, s.driver>> \in DOMAIN defs

Valid(ss) ==
  /\ \A i \in DOMAIN ss : WellFormed(ss[i])
  /\ \A i, j \in DOMAIN ss : ss[i].id = ss[j].id => i = j
  /\ \A i \in DOMAIN ss : \A d \in ToSet(ss[i].deps) : IsSpecID(ss, d)
  /\ Acyclic(ss)

\* Startup validation (README.md:41): NewContainer accepts exactly the lists
\* that are valid and whose definitions were registered in time.
AcceptsTheValid ==
  /\ pc = "done" => Valid(specs) /\ \A i \in DOMAIN specs : Defined(specs[i])
  /\ pc = "error" => ~Valid(specs) \/ err.kind = "DefinitionNotFound"

\* A definition, once registered, stays (registry.go:95-97): what a node was
\* compiled with is what the registry has, whoever registers meanwhile.
DefinitionKept ==
  \A k \in DOMAIN nodes :
    nodes[k].def = defs[<<nodes[k].id.kind, nodes[k].driver>>]

\* "DuplicateNodeError means the same ID appears more than once in specs"
\* (errors.go:18).
DuplicateIsReal ==
  err.kind = "DuplicateNode" =>
    \E i, j \in DOMAIN specs : i # j /\ specs[i].id = specs[j].id

=============================================================================
