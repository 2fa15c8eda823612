---------------------------- MODULE ProcessTree -----------------------------
(***************************************************************************)
(* cprocess_tree (src/process_tree.cpp): a map of the running processes,   *)
(* built from a snapshot, that is walked and killed along parent links.    *)
(* The system goes on meanwhile: processes start and exit, and a pid may   *)
(* soon name another process.  A parent link is a pid, so the code accepts *)
(* it only if the parent is not younger than the child.  A process that    *)
(* cannot be opened gets the time of the snapshot; two of them may look    *)
(* like each other's children, and the walks over such a ring do not end.  *)
(*                                                                         *)
(* The snapshot, every OpenProcess and every TerminateProcess is a step.   *)
(* Privileges, paths, sessions and names are left out: a kill by name may  *)
(* match any processes.                                                    *)
(***************************************************************************)
EXTENDS Naturals, FiniteSets, SequencesExt

CONSTANTS UserPid,   \* pids of processes, other than the two of the system
          MaxBirths  \* bound of the model: processes started

_pt_idle_proc_pid == 0
_pt_system_proc_pid == 4
SystemPid == {_pt_idle_proc_pid, _pt_system_proc_pid}

ASSUME PidAssumption == /\ UserPid \subseteq Nat \ SystemPid /\ IsFiniteSet(UserPid)
                        /\ MaxBirths \in Nat \ {0}

VARIABLES
  born,     \* every process ever started, in order: its pid, the pid of its
            \* parent and the parent itself (0: the system)
  alive,    \* for each pid the process that has it now, an index of born, or 0
  map,      \* _proc_map: what is known of the process of each pid
  pending,  \* snapshot entries build_process_tree has not looked at yet
  now,      \* the time it took for processes whose own it cannot find out
  killed,   \* the entries with _killed
  op,       \* the operation under way
  root,     \* its root_pid
  todo,     \* the entries it is still going to kill, in order
  failed,   \* a kill of it failed
  victims   \* the processes it has terminated, with the pid they were found by

system == <<born, alive>>
tree == <<map, pending, now, killed>>
kill == <<op, root, todo, failed, victims>>
vars == <<system, tree, kill>>

\* Creation times: even ones of processes, odd ones of the moments between.
TimeOf(i) == 2 * i
Now == 2 * Len(born) + 1

\* [System Process] and System, which cannot be opened.
SystemEntries == [p \in SystemPid |-> [ppid |-> 0, time |-> now', who |-> 0]]

NoEntries == [p \in {} |-> 0]

Init == /\ \E p \in UserPid :
             /\ born = <<[pid |-> p, ppid |-> _pt_system_proc_pid, parent |-> 0]>>
             /\ alive = [q \in UserPid |-> IF q = p THEN 1 ELSE 0]
        /\ map = NoEntries /\ pending = {} /\ now = 0 /\ killed = {}
        /\ op = "none" /\ root = 0 /\ todo = <<>> /\ failed = FALSE /\ victims = {}
-----------------------------------------------------------------------------
(* The system *)

Start(p) ==
  /\ alive[p] = 0 /\ Len(born) < MaxBirths
  /\ \E q \in UserPid \union {_pt_system_proc_pid} :
       /\ q \in UserPid => alive[q] # 0
       /\ born' = Append(born, [pid |-> p, ppid |-> q,
                                parent |-> IF q \in UserPid THEN alive[q] ELSE 0])
  /\ alive' = [alive EXCEPT ![p] = Len(born) + 1]
  /\ UNCHANGED <<tree, kill>>

Exit(p) == /\ alive[p] # 0
           /\ alive' = [alive EXCEPT ![p] = 0]
           /\ UNCHANGED <<born, tree, kill>>
-----------------------------------------------------------------------------
(* build_process_tree *)

Running == {[pid |-> p, who |-> alive[p], ppid |-> born[alive[p]].ppid] :
              p \in {q \in UserPid : alive[q] # 0}}

\* clear_process_tree deletes the old entries.
Snapshot == /\ op = "none"
            /\ op' = "build"
            /\ now' = Now
            /\ map' = SystemEntries
            /\ pending' = Running
            /\ killed' = {}
            /\ UNCHANGED <<system, root, todo, failed, victims>>

\* The snapshot cannot be taken or read: the map stays empty.
SnapshotFails == /\ op = "none"
                 /\ map' = NoEntries
                 /\ killed' = {}
                 /\ UNCHANGED <<system, pending, now, kill>>

\* The process that has the pid now is opened and asked for its creation time;
\* the time of the snapshot stands for that of a process that cannot be opened
\* or has no image.
add_process == /\ op = "build" /\ pending # {}
               /\ LET e == CHOOSE x \in pending : \A y \in pending : x.pid <= y.pid
                      entry(t) == [ppid |-> e.ppid, time |-> t, who |-> e.who]
                      with(t) == [p \in DOMAIN map \union {e.pid} |->
                                    IF p = e.pid THEN entry(t) ELSE map[p]]
                  IN  /\ pending' = pending \ {e}
                      /\ \/ alive[e.pid] # 0 /\ map' = with(TimeOf(alive[e.pid]))
                         \/ map' = with(now)
               /\ UNCHANGED <<system, now, killed, kill>>

Built == /\ op = "build" /\ pending = {}
         /\ op' = "none"
         /\ UNCHANGED <<system, tree, root, todo, failed, victims>>
-----------------------------------------------------------------------------
(* Parents and children *)

\* Mutants: pids alone make a child; a child is strictly younger.
ChildByPid(c, p) == map[c].ppid = p
ChildIfYounger(c, p) == map[c].ppid = p /\ map[c].time > map[p].time

\* The test of the loops of iterate_, print_ and kill_process_tree.
IsChild(c, p) == map[c].ppid = p /\ map[c].time >= map[p].time

Children(p) == {c \in DOMAIN map : IsChild(c, p)}

\* get_parent(pid) returns null.
HasNoParent(p) == \/ p \in SystemPid
                  \/ map[p].ppid \notin DOMAIN map
                  \/ map[map[p].ppid].time > map[p].time

\* The processes iterate_process_tree(pid) visits: below pid 0 it stops.
Visited(p) ==
  LET reach[n \in 0..Cardinality(DOMAIN map)] ==
        IF n = 0 THEN {p}
        ELSE LET r == reach[n - 1]
             IN  r \union UNION {Children(q) : q \in r \ {_pt_idle_proc_pid}}
  IN  reach[Cardinality(DOMAIN map)]

\* p is below itself: whatever is on a ring is below nothing else.
OnRing(p) == /\ p # _pt_idle_proc_pid
             /\ \E c \in Children(p) : p \in Visited(c)

\* A set of pids in the order of the map.
Ascending(S) == CHOOSE s \in [1..Cardinality(S) -> S] :
                  \A i, j \in 1..Cardinality(S) : i < j => s[i] < s[j]

\* The order in which kill_process_tree(process*) kills: the trees of the
\* children, by pid, and then the process itself.
PostOrder(p) ==
  LET order[n \in 0..Cardinality(DOMAIN map)] ==
        IF n = 0 THEN [q \in DOMAIN map |-> <<q>>]
        ELSE LET below == order[n - 1]
             IN  [q \in DOMAIN map |->
                    Append(FlattenSeq([i \in DOMAIN Ascending(Children(q)) |->
                                         below[Ascending(Children(q))[i]]]), q)]
  IN  order[Cardinality(DOMAIN map)][p]
-----------------------------------------------------------------------------
(* kill_process and kill_process_tree *)

Begin(name, p, list) == /\ op = "none"
                        /\ op' = name /\ root' = p /\ todo' = list
                        /\ failed' = FALSE /\ victims' = {}
                        /\ UNCHANGED <<system, tree>>

kill_process(p) == p \in DOMAIN map \ SystemPid /\ Begin("kill_process", p, <<p>>)

kill_process_by_name == \E S \in SUBSET (DOMAIN map \ SystemPid) :
                          S # {} /\ Begin("kill_by_name", 0, Ascending(S))

\* A root that was killed before is left alone, its children too.
kill_process_tree(p) ==
  /\ p \in DOMAIN map \ SystemPid
  /\ p \in killed \/ ~OnRing(p)
  /\ Begin("kill_process_tree", p, IF p \in killed THEN <<>> ELSE PostOrder(p))

\* process::kill on the next entry: nothing if it is marked, otherwise it opens
\* and terminates whatever process has the pid, or fails.
KillNext ==
  /\ todo # <<>>
  /\ todo' = Tail(todo)
  /\ LET p == Head(todo)
     IN  \/ /\ p \in killed
            /\ UNCHANGED <<alive, killed, victims, failed>>
         \/ /\ p \notin killed /\ alive[p] # 0
            /\ alive' = [alive EXCEPT ![p] = 0]
            /\ killed' = killed \union {p}
            /\ victims' = victims \union {[pid |-> p, who |-> alive[p]]}
            /\ UNCHANGED failed
         \/ /\ p \notin killed
            /\ failed' = TRUE
            /\ UNCHANGED <<alive, killed, victims>>
  /\ UNCHANGED <<born, map, pending, now, op, root>>

KillReturns == /\ op \in {"kill_process", "kill_by_name", "kill_process_tree"}
               /\ todo = <<>>
               /\ op' = "none" /\ root' = 0 /\ failed' = FALSE /\ victims' = {}
               /\ UNCHANGED <<system, tree, todo>>

\* A walk of a ring, or a kill of it, calls itself until the stack is used up:
\* the program ends, and the map with it.  What the kill has ended till then is
\* left to Exit.
Overflow == /\ op = "none"
            /\ \E p \in DOMAIN map : OnRing(p)
            /\ map' = NoEntries /\ killed' = {}
            /\ UNCHANGED <<system, pending, now, kill>>

Next == \/ \E p \in UserPid : \/ Start(p) \/ Exit(p)
                              \/ kill_process(p) \/ kill_process_tree(p)
        \/ Snapshot \/ SnapshotFails \/ add_process \/ Built
        \/ kill_process_by_name \/ KillNext \/ KillReturns \/ Overflow

Spec == Init /\ [][Next]_vars
-----------------------------------------------------------------------------
\* Every variable has its type; only entries of the map are marked.
TypeOK ==
  /\ Len(born) <= MaxBirths
  /\ alive \in [UserPid -> 0..MaxBirths]
  /\ DOMAIN map \subseteq UserPid \union SystemPid
  /\ \A p \in DOMAIN map : map[p].time \in 0..(2 * MaxBirths + 1)
  /\ \A p \in UserPid : alive[p] # 0 => born[alive[p]].pid = p
  /\ killed \subseteq DOMAIN map
  /\ \A e \in pending : e.pid \notin DOMAIN map
  /\ op \in {"none", "build", "kill_process", "kill_by_name", "kill_process_tree"}
  /\ ToSet(todo) \subseteq DOMAIN map

Complete == op # "build" /\ map # NoEntries

\* The walks from the processes without a parent visit every process once, but
\* for those below a ring.  A ring joins entries of the assumed time only, so
\* that it takes two processes that could not be opened.
EveryProcessOnce ==
  /\ TypeOK
  /\ Complete =>
    LET tops == {p \in DOMAIN map : HasNoParent(p)}
        rings == {p \in DOMAIN map : OnRing(p)}
    IN  /\ UNION {Visited(p) : p \in tops \union rings} = DOMAIN map
        /\ \A p \in tops, q \in tops \union rings :
             p # q => Visited(p) \intersect Visited(q) = {}
        /\ \A r \in rings : map[r].time = now

\* d is a, a child of a, a child of one, and so on: no set that has a and with each
\* process its children is without d.
Ancestor(a, d) ==
  \A S \in SUBSET DOMAIN born :
    a \in S /\ (\A i \in DOMAIN born : born[i].parent \in S => i \in S) => d \in S

\* The entry has not the creation time of its process.
Mistimed(p) == map[p].time # TimeOf(map[p].who)

\* kill_process_tree terminates relatives: each process it has terminated was
\* in the snapshot or has taken over the pid of one that was since, and that one
\* descends from the root or is found at or below a child of a wrong time.
KillsOnlyFamily ==
  op = "kill_process_tree" =>
    \A v \in victims :
      /\ v.who = map[v.pid].who \/ TimeOf(v.who) > now
      /\ \/ Ancestor(map[root].who, map[v.pid].who)
         \/ \E m \in Visited(root) \ {root} : Mistimed(m) /\ v.pid \in Visited(m)

\* S has the processes that those of its members were born to, by the snapshot; of
\* members with a wrong time the code may miss children.
TrueFamily(S) ==
  \A p \in S : ~Mistimed(p) =>
    \A c \in DOMAIN map \intersect UserPid : born[map[c].who].parent = map[p].who => c \in S

\* "Terminates root_pid and all its children": when a tree kill that met no
\* failure and no killed root returns, the processes of the snapshot that
\* descend from the root are dead, those below a wrong time excepted.
NoSurvivors ==
  op = "kill_process_tree" /\ todo = <<>> /\ ~failed /\ victims # {} =>
    \E S \in SUBSET (DOMAIN map \intersect UserPid) :
      root \in S /\ TrueFamily(S) /\ \A p \in S : alive[p] # map[p].who

\* A kill of a tree ends the family and nobody else.
KillsTheFamily == KillsOnlyFamily /\ NoSurvivors

\* process_tree.cpp:710 promises it of every kill that met no failure.
FamilyIsEnded ==
  op = "kill_process_tree" /\ todo = <<>> /\ ~failed =>
    \A c \in DOMAIN map \intersect UserPid :
      Ancestor(map[root].who, map[c].who) => alive[c] # map[c].who
=============================================================================
