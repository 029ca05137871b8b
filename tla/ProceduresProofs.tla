--------------------------- MODULE ProceduresProofs ---------------------------
(***************************************************************************)
(* The procedures of a scroll on either backend, for every scroll file and *)
(* every number of calls, stops, crashes and restarts of the daemon.       *)
(***************************************************************************)
EXTENDS MCProcedures, WellFoundedInduction, TLAPS

\* A bounded set of numbers has a greatest one.
LEMMA HasMaximum ==
    ASSUME NEW S \in SUBSET Nat, S # {}, NEW bound \in Nat, \A x \in S : x <= bound
    PROVE  \E x \in S : \A y \in S : y <= x
<1> DEFINE T == {bound - x : x \in S}
<1>0. \A x \in S : x \in Nat /\ bound - x \in Nat
  OBVIOUS
<1>1. T \subseteq Nat /\ T # {}
  BY <1>0
<1> HIDE DEF T
<1>2. PICK m \in T : \A n \in T : m <= n
  <2> DEFINE R == OpToRel(<, Nat)
  <2>1. PICK m \in T : \A n \in T : <<n, m>> \notin R
    <3> HIDE DEF R
    <3> QED
      BY <1>1, NatLessThanWellFounded, WFMin DEF R
  <2>2. \A n \in T : ~(n < m)
    BY <1>1, <2>1 DEF OpToRel
  <2> QED
    BY <1>1, <2>2
<1>3. PICK x \in S : m = bound - x
  BY DEF T
<1>4. \A y \in S : bound - y \in T
  BY DEF T
<1> QED
  BY <1>2, <1>3, <1>4

LEMMA MaxAbove ==
    ASSUME NEW S \in SUBSET Nat, S # {}, NEW bound \in Nat, \A x \in S : x <= bound
    PROVE  Max(S) \in S /\ \A y \in S : y <= Max(S)
<1>1. PICK x \in S : \A y \in S : y <= x
  BY HasMaximum
<1>2. \A y \in S : x >= y
  BY <1>1
<1>3. Max(S) \in S /\ \A y \in S : Max(S) >= y
  BY <1>2 DEF Max
<1> QED
  BY <1>3

LEMMA ProcedureOf ==
    ASSUME NEW c \in Commands, NEW i \in Nat, 1 <= i, i <= Length[c]
    PROVE  <<c, i>> \in Procs
BY ProceduresAssumption DEF Procs

LEMMA CommandOfProcedure ==
    ASSUME NEW p \in Procs
    PROVE  /\ p[1] \in Commands /\ p[2] \in Nat /\ 1 <= p[2] /\ p[2] <= Length[p[1]]
           /\ p = <<p[1], p[2]>>
<1>1. PICK c \in Commands : \E i \in 1..Length[c] : p = <<c, i>>
  BY DEF Procs
<1> QED
  BY <1>1, ProceduresAssumption
-----------------------------------------------------------------------------
(* Docker: types                                                           *)

CallState ==
    [pc : {"free", "next", "prune", "attach", "start", "wait"}, cmd : Commands \cup {"none"},
     idx : Nat, todo : SUBSET Ids, next : Nat, id : Ids \cup {0}, start : BOOLEAN,
     loose : BOOLEAN]

Place(r) == <<r.cmd, r.idx>>

DockerTypes ==
    /\ containers \subseteq Container
    /\ handle \in [Procs -> Ids \cup {0}] /\ stdin \in [Procs -> Ids \cup {0}]
    /\ run \in [Runs -> CallState]
    /\ watchers \subseteq Procs \X Ids
    /\ created \in 0..MaxContainers /\ stray \subseteq Ids /\ left \subseteq Commands

\* A call at work knows its command; one that has looked at its procedure
\* knows that it has an image.
CallsPlaced ==
    \A k \in Runs :
        /\ run[k].pc # "free" => run[k].cmd \in Commands /\ run[k].idx >= 1
        /\ run[k].pc \notin {"free", "next"} =>
              run[k].idx <= Length[run[k].cmd] /\ Kind[Place(run[k])] = "image"
        /\ run[k].pc = "wait" => Mode[run[k].cmd] # "persistent"
        /\ run[k].pc \in {"attach", "start", "wait"} => run[k].id # 0
        /\ run[k].loose => run[k].cmd \in left

\* Ids and attempts are no higher than the containers created so far.
Fresh ==
    /\ \A c \in containers : c.id <= created /\ c.attempt <= created
    /\ \A c, d \in containers : c.id = d.id => c = d
    /\ \A k \in Runs : run[k].id <= created /\ 1 <= run[k].next /\ run[k].next <= created + 1
    /\ \A p \in Procs : handle[p] <= created

\* The step of a call, as far as the calls are concerned.
CallStep(k) ==
    /\ run' \in [Runs -> CallState]
    /\ \A m \in Runs \ {k} : run'[m] = run[m]
    /\ \/ run'[k].pc = "free" /\ ~run'[k].loose
       \/ run[k].pc # "free" /\ run'[k].cmd = run[k].cmd /\ run'[k].loose = run[k].loose

LEMMA FreeType == Free \in CallState
BY DEF Free, CallState, Ids

LEMMA NextProcedureStep ==
    ASSUME DockerTypes, CallsPlaced, NEW k \in Runs, run[k].pc # "free", NextProcedure(k)
    PROVE  /\ CallStep(k)
           /\ run'[k].pc = "next" /\ run'[k].idx = run[k].idx + 1 /\ run'[k].id = 0
           /\ run'[k].next = 1
<1>0. PICK r : r = [run[k] EXCEPT !.pc = "next", !.idx = @ + 1, !.id = 0, !.start = FALSE,
                                  !.next = 1]
  OBVIOUS
<1>1. run[k] \in CallState
  BY DEF DockerTypes
<1>4. run[k].idx + 1 \in Nat /\ 0 \in Ids \cup {0}
  BY <1>1 DEF CallState
<1>2. /\ r \in CallState
      /\ r.pc = "next" /\ r.idx = run[k].idx + 1 /\ r.cmd = run[k].cmd
      /\ r.loose = run[k].loose /\ r.id = 0 /\ r.next = 1
  BY <1>0, <1>1, <1>4 DEF CallState
<1>3. run' = [run EXCEPT ![k] = r]
  BY <1>0 DEF NextProcedure
<1> QED
  BY <1>2, <1>3 DEF CallStep, DockerTypes

LEMMA ReturnStep ==
    ASSUME DockerTypes, NEW k \in Runs, ReturnRun(k)
    PROVE  /\ CallStep(k) /\ run'[k] = Free
BY FreeType DEF ReturnRun, DockerTypes, CallStep, Free

\* The step of a call that goes on with r.
LEMMA CallGoesOn ==
    ASSUME DockerTypes, NEW k \in Runs, NEW r \in CallState, run' = [run EXCEPT ![k] = r],
           \/ r.pc = "free" /\ ~r.loose
           \/ run[k].pc # "free" /\ r.cmd = run[k].cmd /\ r.loose = run[k].loose
    PROVE  CallStep(k) /\ run'[k] = r
BY DEF DockerTypes, CallStep

LEMMA CallsPlacedStep ==
    ASSUME DockerTypes, CallsPlaced, NEW k \in Runs, CallStep(k), UNCHANGED left,
           run'[k].pc # "free" => run'[k].idx >= 1,
           run'[k].pc \notin {"free", "next"} =>
              run'[k].idx <= Length[run'[k].cmd] /\ Kind[<<run'[k].cmd, run'[k].idx>>] = "image",
           run'[k].pc = "wait" => Mode[run'[k].cmd] # "persistent",
           run'[k].pc \in {"attach", "start", "wait"} => run'[k].id # 0
    PROVE  CallsPlaced'
BY DEF DockerTypes, CallsPlaced, CallStep, Place

\* Removing is all that happens to the containers.
LEMMA TryRemoveShrinks ==
    ASSUME NEW ids, TryRemove(ids)
    PROVE  containers' \subseteq containers
BY DEF TryRemove

LEMMA FreshShrinks ==
    ASSUME DockerTypes, Fresh, NEW k \in Runs, CallStep(k), containers' \subseteq containers,
           UNCHANGED created,
           \A p \in Procs : handle'[p] \in {0, handle[p]},
           run'[k].id \in {0, run[k].id}, run'[k].next \in {1, run[k].next}
    PROVE  Fresh'
<1>1. created \in Nat
  BY DEF DockerTypes
<1>2. \A m \in Runs : run'[m].id \in {0, run[m].id} /\ run'[m].next \in {1, run[m].next}
  BY DEF CallStep
<1>3. \A c \in containers' : c \in containers
  OBVIOUS
<1>4. \A m \in Runs : run'[m].id <= created' /\ 1 <= run'[m].next /\ run'[m].next <= created' + 1
  BY <1>1, <1>2 DEF Fresh
<1>5. \A p \in Procs : handle'[p] <= created'
  BY <1>1 DEF Fresh
<1> QED
  BY <1>3, <1>4, <1>5 DEF Fresh

LEMMA ClearType ==
    ASSUME DockerTypes, NEW p, Clear(p)
    PROVE  /\ handle' \in [Procs -> Ids \cup {0}] /\ stdin' \in [Procs -> Ids \cup {0}]
           /\ \A q \in Procs : handle'[q] \in {0, handle[q]} /\ stdin'[q] \in {0, stdin[q]}
           /\ \A q \in Procs : q # p => handle'[q] = handle[q] /\ stdin'[q] = stdin[q]
BY DEF DockerTypes, Clear

Basics == DockerTypes /\ CallsPlaced /\ Fresh

\* Where the place of a call at work is.
LEMMA PlaceType ==
    ASSUME Basics, NEW k \in Runs, run[k].pc \notin {"free", "next"}
    PROVE  Doing(k) \in Procs /\ Doing(k) = Place(run[k])
<1>1. run[k].cmd \in Commands /\ run[k].idx \in Nat /\ 1 <= run[k].idx /\ run[k].idx <= Length[run[k].cmd]
  BY DEF Basics, DockerTypes, CallsPlaced, CallState
<1> QED
  BY <1>1, ProcedureOf DEF Doing, Place

LEMMA AtProcedureType ==
    ASSUME Basics, NEW k \in Runs, NEW kind, RunAt(k, kind)
    PROVE  /\ Doing(k) \in Procs /\ Doing(k) = Place(run[k]) /\ Kind[Doing(k)] = kind
           /\ run[k].pc = "next" /\ run[k].idx <= Length[run[k].cmd]
<1>1. run[k].cmd \in Commands /\ run[k].idx \in Nat /\ 1 <= run[k].idx /\ run[k].idx <= Length[run[k].cmd]
  BY DEF Basics, DockerTypes, CallsPlaced, CallState, RunAt
<1> QED
  BY <1>1, ProcedureOf DEF Doing, Place, RunAt

\* The call returns or goes on with the next procedure.
LEMMA LeavesProcedure ==
    ASSUME Basics, NEW k \in Runs, ReturnRun(k) \/ (run[k].pc # "free" /\ NextProcedure(k)),
           containers' \subseteq containers,
           handle' \in [Procs -> Ids \cup {0}], stdin' \in [Procs -> Ids \cup {0}],
           \A p \in Procs : handle'[p] \in {0, handle[p]},
           watchers' \subseteq Procs \X Ids, UNCHANGED past
    PROVE  Basics' /\ CallStep(k)
<1>1. /\ CallStep(k)
      /\ run'[k].pc = "free" \/ (run'[k].pc = "next" /\ run'[k].idx = run[k].idx + 1)
      /\ run'[k].id = 0 /\ run'[k].next = 1
  BY NextProcedureStep, ReturnStep DEF Basics, Free
<1>2. DockerTypes'
  BY <1>1 DEF Basics, DockerTypes, CallStep, past
<1>3. run[k].pc # "free" => run[k].idx \in Nat /\ run[k].idx >= 1
  BY DEF Basics, DockerTypes, CallsPlaced, CallState
<1>4. run'[k].pc # "free" => run'[k].idx >= 1
  BY <1>1, <1>3 DEF CallStep
<1>5. CallsPlaced'
  BY <1>1, <1>4, CallsPlacedStep DEF Basics, past
<1>6. Fresh'
  BY <1>1, FreshShrinks DEF Basics, past
<1> QED
  BY <1>1, <1>2, <1>5, <1>6 DEF Basics

LEMMA LeavesTypes ==
    ASSUME Basics, NEW k \in Runs,
           \/ RunFinished(k) \/ RunNoImage(k) \/ AttachFails(k) \/ SetupFails(k) \/ StartFails(k)
           \/ \E state \in {"exited0", "exited1", "error"} : WaitEnds(k, state)
    PROVE  Basics' /\ CallStep(k) /\ containers' \subseteq containers
<1>1. ReturnRun(k) \/ (run[k].pc # "free" /\ NextProcedure(k))
  BY DEF RunFinished, RunNoImage, AttachFails, SetupFails, StartFails, WaitEnds
<1>2. containers' \subseteq containers /\ UNCHANGED <<watchers, past>>
  BY TryRemoveShrinks DEF RunFinished, RunNoImage, AttachFails, SetupFails, StartFails, WaitEnds
<1>3. \/ UNCHANGED maps
      \/ Clear(Doing(k))
      \/ handle' = [handle EXCEPT ![Doing(k)] = 0] /\ UNCHANGED stdin
  BY DEF RunFinished, RunNoImage, AttachFails, SetupFails, StartFails, WaitEnds, maps
<1>4. /\ handle' \in [Procs -> Ids \cup {0}] /\ stdin' \in [Procs -> Ids \cup {0}]
      /\ \A p \in Procs : handle'[p] \in {0, handle[p]}
  BY <1>3, ClearType DEF Basics, DockerTypes, maps
<1>5. watchers' \subseteq Procs \X Ids
  BY <1>2 DEF Basics, DockerTypes
<1> QED
  BY <1>1, <1>2, <1>4, <1>5, LeavesProcedure

\* A signal changes states, never ids.
LEMMA SignalTypes ==
    ASSUME Basics, NEW k \in Runs, SignalProcedure(k)
    PROVE  /\ Basics' /\ CallStep(k)
           /\ \A c \in containers' : \E d \in containers :
                 /\ c.id = d.id /\ c.proc = d.proc /\ c.attempt = d.attempt
                 /\ Running(c) => Running(d)
                 /\ c.state = "running" => c = d /\ c.id # handle[Target[Doing(k)]]
           /\ \A c, d \in containers' : c.id = d.id => c = d
<1> DEFINE t == Target[Doing(k)]
           Ended(c, s) == IF c.id = handle[t] /\ c.state = "running"
                          THEN [c EXCEPT !.state = s] ELSE c
<1>1. PICK s \in {"exited0", "exited1"} :
         \/ containers' = {Ended(c, s) : c \in containers}
         \/ UNCHANGED containers /\ SignalTargets(t) = {}
  BY DEF SignalProcedure
<1>2. \A c \in containers :
         /\ Ended(c, s) \in Container
         /\ Ended(c, s).id = c.id /\ Ended(c, s).proc = c.proc /\ Ended(c, s).attempt = c.attempt
         /\ Running(Ended(c, s)) => Running(c)
         /\ Ended(c, s).state = "running" => Ended(c, s) = c /\ c.id # handle[t]
  BY DEF Basics, DockerTypes, Container, Running
<1>3. \A c \in containers : SignalTargets(t) = {} => c.id # handle[t]
  BY DEF SignalTargets, Object
<1> HIDE DEF Ended, t
<1>4. \A c \in containers' : \E d \in containers :
         /\ c.id = d.id /\ c.proc = d.proc /\ c.attempt = d.attempt
         /\ Running(c) => Running(d)
         /\ c.state = "running" => c = d /\ c.id # handle[t]
  BY <1>1, <1>2, <1>3
<1>5. containers' \subseteq Container
  BY <1>1, <1>2 DEF Basics, DockerTypes
<1>6. \A c, d \in containers' : c.id = d.id => c = d
  <2>1. \A c, d \in containers : c.id = d.id => c = d
    BY DEF Basics, Fresh
  <2> QED
    BY <1>1, <1>2, <2>1
<1>7. /\ CallStep(k) /\ run[k].pc = "next"
      /\ run'[k].pc = "free" \/ (run'[k].pc = "next" /\ run'[k].idx = run[k].idx + 1)
      /\ run'[k].id = 0 /\ run'[k].next = 1
  BY NextProcedureStep, ReturnStep DEF SignalProcedure, Basics, Free, RunAt
<1>8. UNCHANGED <<maps, watchers, past>>
  BY DEF SignalProcedure
<1>9. run[k].idx \in Nat /\ run[k].idx >= 1
  BY <1>7 DEF Basics, DockerTypes, CallsPlaced, CallState
<1>10. DockerTypes'
  BY <1>5, <1>7, <1>8 DEF Basics, DockerTypes, CallStep, maps, past
<1>11. run'[k].pc # "free" => run'[k].idx >= 1
  BY <1>7, <1>9
<1>12. CallsPlaced'
  BY <1>7, <1>8, <1>11, CallsPlacedStep DEF Basics, past
<1>13. Fresh'
  <2>1. \A m \in Runs : run'[m].id \in {0, run[m].id} /\ run'[m].next \in {1, run[m].next}
    BY <1>7 DEF CallStep
  <2>2. created \in Nat
    BY DEF Basics, DockerTypes
  <2>3. \A m \in Runs : run'[m].id <= created' /\ 1 <= run'[m].next /\ run'[m].next <= created' + 1
    BY <1>8, <2>1, <2>2 DEF Basics, Fresh, past
  <2>4. \A c \in containers' : c.id <= created' /\ c.attempt <= created'
    BY <1>4, <1>8 DEF Basics, Fresh, past
  <2>5. \A p \in Procs : handle'[p] <= created'
    BY <1>8 DEF Basics, Fresh, past, maps
  <2> QED
    BY <1>6, <2>3, <2>4, <2>5 DEF Fresh
<1> QED
  BY <1>4, <1>6, <1>7, <1>10, <1>12, <1>13 DEF Basics, t

LEMMA NewestExists ==
    ASSUME Basics, NEW open \in SUBSET containers, open # {}
    PROVE  \E c \in open : \A d \in open \ {c} : Newer(c, d)
<1> DEFINE A == {c.attempt : c \in open}
<1>1. \A c \in open : c.attempt \in Nat /\ c.id \in Nat /\ c.attempt <= MaxContainers /\ c.id <= MaxContainers
  BY DockerAssumption DEF Basics, DockerTypes, Container, Ids
<1>2. A \in SUBSET Nat /\ A # {} /\ MaxContainers \in Nat /\ \A x \in A : x <= MaxContainers
  BY <1>1, DockerAssumption
<1>3. PICK a \in A : \A x \in A : x <= a
  BY <1>2, HasMaximum
<1> DEFINE I == {c.id : c \in {d \in open : d.attempt = a}}
<1>4. I \in SUBSET Nat /\ I # {} /\ \A x \in I : x <= MaxContainers
  BY <1>1, <1>3
<1>5. PICK i \in I : \A x \in I : x <= i
  BY <1>2, <1>4, HasMaximum
<1>6. PICK c \in open : c.attempt = a /\ c.id = i
  BY <1>5
<1>7. \A d \in open \ {c} : d.attempt <= a /\ d.id # c.id /\ (d.attempt = a => d.id <= i)
  BY <1>3, <1>5 DEF Basics, Fresh
<1>8. ASSUME NEW d \in open \ {c} PROVE Newer(c, d)
  BY <1>1, <1>6, <1>7 DEF Newer
<1> QED
  BY <1>8

LEMMA NextAttemptType ==
    ASSUME Basics, NEW p
    PROVE  NextAttempt(p) \in Nat /\ 1 <= NextAttempt(p) /\ NextAttempt(p) <= created + 1
<1> DEFINE S == {0} \cup {c.attempt : c \in ContainersOf(p)}
<1>1. created \in Nat
  BY DEF Basics, DockerTypes
<1>2. \A c \in ContainersOf(p) : c.attempt \in Nat /\ c.attempt <= created
  BY DEF Basics, DockerTypes, Fresh, Container, Ids, ContainersOf
<1>3. S \in SUBSET Nat /\ S # {} /\ \A x \in S : x <= created
  BY <1>1, <1>2
<1>4. Max(S) \in S
  BY <1>1, <1>3, MaxAbove
<1>5. NextAttempt(p) = Max(S) + 1
  BY DEF NextAttempt
<1> QED
  BY <1>1, <1>3, <1>4, <1>5

\* The call attaches to the newest container that is not exited, or will
\* create the next one.
LEMMA ListTypes ==
    ASSUME Basics, NEW k \in Runs, ListContainers(k)
    PROVE  /\ Basics' /\ CallStep(k) /\ Place(run'[k]) = Doing(k)
           /\ \/ /\ run'[k].pc = "attach"
                 /\ \E c \in ReusableContainers(Doing(k)) : run'[k].id = c.id
              \/ run'[k].pc = "prune" /\ ReusableContainers(Doing(k)) = {}
<1> DEFINE p == Doing(k)
           open == ReusableContainers(p)
           active == CHOOSE c \in open : \A d \in open \ {c} : Newer(c, d)
           todo == {c.id : c \in {c \in ContainersOf(p) : ~Running(c) /\ ~Failed(c)} \cup Pruned(p)}
<1>1. /\ p \in Procs /\ p = Place(run[k]) /\ Kind[p] = "image"
      /\ run[k].pc = "next" /\ run[k].idx <= Length[run[k].cmd]
  BY AtProcedureType DEF ListContainers
<1>2. run[k] \in CallState /\ run[k].idx >= 1 /\ run[k].idx \in Nat /\ run[k].next \in Nat
  BY <1>1 DEF Basics, DockerTypes, CallsPlaced, CallState
<1>3. open \subseteq containers
  BY DEF ReusableContainers, ContainersOf
<1>4. open # {} => active \in open
  BY <1>3, NewestExists
<1>5. todo \subseteq Ids
  BY DEF ContainersOf, Pruned, Basics, DockerTypes, Container
<1>6. NextAttempt(p) \in Nat /\ 1 <= NextAttempt(p) /\ NextAttempt(p) <= created + 1
  BY NextAttemptType
<1>7. run' = [run EXCEPT ![k] =
          IF open # {}
          THEN [run[k] EXCEPT !.pc = "attach", !.id = active.id, !.start = active.state = "created"]
          ELSE [run[k] EXCEPT !.pc = "prune", !.todo = todo, !.next = NextAttempt(p)]]
  BY DEF ListContainers
<1>8. UNCHANGED <<containers, maps, watchers, past>>
  BY DEF ListContainers
<1> HIDE DEF open, active, todo
<1>9. PICK r : r = IF open # {}
          THEN [run[k] EXCEPT !.pc = "attach", !.id = active.id, !.start = active.state = "created"]
          ELSE [run[k] EXCEPT !.pc = "prune", !.todo = todo, !.next = NextAttempt(p)]
  OBVIOUS
<1>10. run' = [run EXCEPT ![k] = r]
  BY <1>7, <1>9
<1>11. open # {} => active \in containers /\ active.id \in Ids /\ active.id <= created /\ active.id # 0
  BY <1>3, <1>4 DEF Basics, DockerTypes, Fresh, Container, Ids
<1>12. /\ r \in CallState
       /\ r.cmd = run[k].cmd /\ r.idx = run[k].idx /\ r.loose = run[k].loose
       /\ \/ r.pc = "attach" /\ r.id = active.id /\ open # {} /\ r.next = run[k].next
          \/ r.pc = "prune" /\ open = {} /\ r.next = NextAttempt(p) /\ r.id = run[k].id
  <2>1. CASE open # {}
    BY <1>2, <1>9, <1>11, <2>1 DEF CallState
  <2>2. CASE open = {}
    BY <1>2, <1>5, <1>6, <1>9, <2>2 DEF CallState
  <2> QED
    BY <2>1, <2>2
<1>13. CallStep(k) /\ run'[k] = r
  BY <1>1, <1>10, <1>12, CallGoesOn DEF Basics
<1>14. Place(run'[k]) = p
  BY <1>1, <1>12, <1>13 DEF Place
<1>15. DockerTypes'
  BY <1>8, <1>13 DEF Basics, DockerTypes, CallStep, maps, past
<1>16. CallsPlaced'
  <2>1. run'[k].idx <= Length[run'[k].cmd] /\ Kind[<<run'[k].cmd, run'[k].idx>>] = "image"
    BY <1>1, <1>12, <1>13, <1>14 DEF Place
  <2> QED
    BY <1>2, <1>8, <1>11, <1>12, <1>13, <2>1, CallsPlacedStep DEF Basics, past
<1>17. Fresh'
  <2>1. created \in Nat /\ run[k].id <= created /\ 1 <= run[k].next /\ run[k].next <= created + 1
    BY DEF Basics, DockerTypes, Fresh
  <2>2. r.id <= created /\ 1 <= r.next /\ r.next <= created + 1
    BY <1>6, <1>11, <1>12, <2>1
  <2> QED
    BY <1>8, <1>13, <2>2 DEF Basics, Fresh, past, maps, CallStep
<1> QED
  BY <1>4, <1>12, <1>13, <1>14, <1>15, <1>16, <1>17 DEF Basics, open

LEMMA PruneTypes ==
    ASSUME Basics, NEW k \in Runs, NEW i \in run[k].todo, PruneListed(k, i)
    PROVE  /\ Basics' /\ CallStep(k) /\ containers' \subseteq containers
           /\ run[k].pc = "prune" /\ run'[k].pc = "prune" /\ Place(run'[k]) = Place(run[k])
<1>1. PICK r : r = [run[k] EXCEPT !.todo = @ \ {i}]
  OBVIOUS
<1>2. run[k] \in CallState /\ run[k].pc = "prune"
  BY DEF Basics, DockerTypes, PruneListed
<1>3. /\ r \in CallState
      /\ r.pc = "prune" /\ r.cmd = run[k].cmd /\ r.idx = run[k].idx /\ r.loose = run[k].loose
      /\ r.id = run[k].id /\ r.next = run[k].next
  BY <1>1, <1>2 DEF CallState
<1>4. run' = [run EXCEPT ![k] = r]
  BY <1>1 DEF PruneListed
<1>5. CallStep(k) /\ run'[k] = r
  BY <1>2, <1>3, <1>4, CallGoesOn DEF Basics
<1>6. containers' \subseteq containers /\ UNCHANGED <<maps, watchers, past>>
  BY TryRemoveShrinks DEF PruneListed
<1>7. DockerTypes'
  BY <1>5, <1>6 DEF Basics, DockerTypes, CallStep, maps, past
<1>8. run[k].idx >= 1 /\ run[k].idx <= Length[run[k].cmd] /\ Kind[<<run[k].cmd, run[k].idx>>] = "image"
  BY <1>2 DEF Basics, CallsPlaced, Place
<1>9. CallsPlaced'
  BY <1>3, <1>5, <1>6, <1>8, CallsPlacedStep DEF Basics, past
<1>10. Fresh'
  BY <1>3, <1>5, <1>6, FreshShrinks DEF Basics, maps, past
<1> QED
  BY <1>2, <1>3, <1>5, <1>6, <1>7, <1>9, <1>10 DEF Basics, Place

LEMMA CreateTypes ==
    ASSUME Basics, NEW k \in Runs, CreateContainer(k)
    PROVE  /\ Basics' /\ CallStep(k)
           /\ run[k].pc = "prune" /\ run'[k].pc = "attach" /\ Place(run'[k]) = Place(run[k])
           /\ run'[k].id = created + 1
           /\ \E c \in Container : /\ containers' = containers \cup {c}
                                   /\ c.id = created + 1 /\ c.proc = Doing(k) /\ c.state = "created"
<1>1. PICK r : r = [run[k] EXCEPT !.pc = "attach", !.id = created + 1, !.start = TRUE, !.next = 1]
  OBVIOUS
<1>2. run[k] \in CallState /\ run[k].pc = "prune"
  BY DEF Basics, DockerTypes, CreateContainer
<1>3. /\ created \in Nat /\ created + 1 \in Ids /\ created' = created + 1
      /\ UNCHANGED <<maps, watchers, left, disturbed>>
  <2>1. created \in 0..MaxContainers /\ created < MaxContainers
    BY DEF Basics, DockerTypes, CreateContainer
  <2>2. created \in Nat /\ created + 1 \in 1..MaxContainers
    BY <2>1, DockerAssumption
  <2> QED
    BY <2>2 DEF CreateContainer, Ids
<1>4. /\ r \in CallState
      /\ r.pc = "attach" /\ r.cmd = run[k].cmd /\ r.idx = run[k].idx /\ r.loose = run[k].loose
      /\ r.id = created + 1 /\ r.next = 1
  BY <1>1, <1>2, <1>3 DEF CallState
<1>5. run' = [run EXCEPT ![k] = r]
  BY <1>1 DEF CreateContainer
<1>6. CallStep(k) /\ run'[k] = r
  BY <1>2, <1>4, <1>5, CallGoesOn DEF Basics
<1>7. PICK c : c = [id |-> created + 1, proc |-> Doing(k), attempt |-> run[k].next, state |-> "created"]
  OBVIOUS
<1>8. run[k].next \in Nat /\ 1 <= run[k].next /\ run[k].next <= created + 1 /\ created < MaxContainers
  BY <1>2 DEF Basics, Fresh, CallState, CreateContainer
<1>9. Doing(k) \in Procs
  BY <1>2, PlaceType
<1>10. run[k].next \in Ids
  BY <1>3, <1>8, DockerAssumption DEF Ids
<1>11. /\ c \in Container
       /\ c.id = created + 1 /\ c.attempt = run[k].next /\ c.proc = Doing(k) /\ c.state = "created"
  BY <1>3, <1>7, <1>9, <1>10 DEF Container
<1>12. containers' = containers \cup {c}
  BY <1>7 DEF CreateContainer
<1>13. stray' \subseteq Ids
  BY <1>3 DEF CreateContainer, Basics, DockerTypes
<1>14. created' \in 0..MaxContainers
  BY <1>3, <1>8, DockerAssumption
<1>15. DockerTypes'
  BY <1>3, <1>6, <1>11, <1>12, <1>13, <1>14 DEF Basics, DockerTypes, CallStep, maps
<1>16. run[k].idx >= 1 /\ run[k].idx <= Length[run[k].cmd] /\ Kind[<<run[k].cmd, run[k].idx>>] = "image"
  BY <1>2 DEF Basics, CallsPlaced, Place
<1>17. CallsPlaced'
  BY <1>3, <1>4, <1>6, <1>16, CallsPlacedStep DEF Basics
<1>18. Fresh'
  <2>1. \A d \in containers' : d.id <= created' /\ d.attempt <= created'
    <3>1. \A d \in containers : d.id \in Nat /\ d.attempt \in Nat /\ d.id <= created /\ d.attempt <= created
      BY DEF Basics, DockerTypes, Fresh, Container, Ids
    <3>2. c.id <= created + 1 /\ c.attempt <= created + 1
      BY <1>3, <1>8, <1>11
    <3> QED
      BY <1>3, <1>12, <3>1, <3>2
  <2>2. \A d, e \in containers' : d.id = e.id => d = e
    <3>1. \A d \in containers : d.id # created + 1
      BY <1>3 DEF Basics, DockerTypes, Fresh, Container, Ids
    <3> QED
      BY <1>11, <1>12, <3>1 DEF Basics, Fresh
  <2>3. \A m \in Runs : run'[m].id <= created' /\ 1 <= run'[m].next /\ run'[m].next <= created' + 1
    <3>1. \A m \in Runs : /\ run[m].id \in Nat /\ run[m].next \in Nat
                          /\ run[m].id <= created /\ 1 <= run[m].next /\ run[m].next <= created + 1
      BY DEF Basics, DockerTypes, Fresh, CallState, Ids
    <3>2. r.id <= created + 1 /\ 1 <= r.next /\ r.next <= created + 2
      BY <1>3, <1>4
    <3> QED
      BY <1>3, <1>6, <3>1, <3>2 DEF CallStep
  <2>4. \A p \in Procs : handle'[p] <= created'
    <3>1. \A p \in Procs : handle[p] \in Nat /\ handle[p] <= created
      BY DEF Basics, DockerTypes, Fresh, Ids
    <3> QED
      BY <1>3, <3>1 DEF maps
  <2> QED
    BY <2>1, <2>2, <2>3, <2>4 DEF Fresh
<1> QED
  BY <1>2, <1>4, <1>6, <1>11, <1>12, <1>15, <1>17, <1>18 DEF Basics, Place

\* The call goes on with a container that runs.
LEMMA StartedStep ==
    ASSUME Basics, NEW k \in Runs, run[k].pc \in {"attach", "start"}, Started(k)
    PROVE  /\ CallStep(k)
           /\ \/ Persistent(k) /\ run'[k].pc = "next" /\ run'[k].id = 0 /\ run'[k].idx = run[k].idx + 1
                 /\ run'[k].next = 1
              \/ ~Persistent(k) /\ run'[k].pc = "wait" /\ run'[k].id = run[k].id
                 /\ Place(run'[k]) = Place(run[k]) /\ run'[k].next = run[k].next
<1>1. CASE Persistent(k)
  BY <1>1, NextProcedureStep DEF Started, Basics
<1>2. CASE ~Persistent(k)
  <2>1. PICK r : r = [run[k] EXCEPT !.pc = "wait", !.start = FALSE]
    OBVIOUS
  <2>2. run[k] \in CallState
    BY DEF Basics, DockerTypes
  <2>3. /\ r \in CallState
        /\ r.pc = "wait" /\ r.cmd = run[k].cmd /\ r.idx = run[k].idx /\ r.loose = run[k].loose
        /\ r.id = run[k].id /\ r.next = run[k].next
    BY <2>1, <2>2 DEF CallState
  <2>4. run' = [run EXCEPT ![k] = r]
    BY <1>2, <2>1 DEF Started
  <2>5. CallStep(k) /\ run'[k] = r
    BY <2>3, <2>4, CallGoesOn DEF Basics
  <2> QED
    BY <1>2, <2>3, <2>5 DEF Place
<1> QED
  BY <1>1, <1>2

\* The place a call that attaches or starts goes to: it keeps its container,
\* or a persistent procedure is left to its goroutine.
StartsAt(k) ==
    \/ run'[k].pc = "next" /\ Persistent(k)
    \/ /\ run'[k].pc \in {"start", "wait"}
       /\ run'[k].id = run[k].id /\ Place(run'[k]) = Place(run[k])

LEMMA AttachTypes ==
    ASSUME Basics, NEW k \in Runs, Attach(k)
    PROVE  /\ Basics' /\ CallStep(k) /\ StartsAt(k) /\ UNCHANGED containers
           /\ handle' = [handle EXCEPT ![Doing(k)] = run[k].id]
           /\ stdin' = [stdin EXCEPT ![Doing(k)] = run[k].id]
           /\ watchers' \subseteq watchers \cup {<<Doing(k), run[k].id>>}
           /\ watchers' = watchers \/ Persistent(k)
<1>1. run[k] \in CallState /\ run[k].pc = "attach" /\ run[k].id # 0
  BY DEF Basics, DockerTypes, CallsPlaced, Attach
<1>2. /\ CallStep(k)
      /\ \/ /\ Persistent(k) /\ run'[k].pc = "next" /\ run'[k].id = 0 /\ run'[k].idx = run[k].idx + 1
            /\ run'[k].next = 1
         \/ /\ run'[k].pc = "start" \/ (run'[k].pc = "wait" /\ ~Persistent(k))
            /\ run'[k].id = run[k].id /\ Place(run'[k]) = Place(run[k]) /\ run'[k].next = run[k].next
  <2>1. CASE run[k].start
    <3>1. PICK r : r = [run[k] EXCEPT !.pc = "start"]
      OBVIOUS
    <3>2. /\ r \in CallState
          /\ r.pc = "start" /\ r.cmd = run[k].cmd /\ r.idx = run[k].idx /\ r.loose = run[k].loose
          /\ r.id = run[k].id /\ r.next = run[k].next
      BY <1>1, <3>1 DEF CallState
    <3>3. run' = [run EXCEPT ![k] = r]
      BY <2>1, <3>1 DEF Attach
    <3>4. CallStep(k) /\ run'[k] = r
      BY <1>1, <3>2, <3>3, CallGoesOn DEF Basics
    <3> QED
      BY <3>2, <3>4 DEF Place
  <2>2. CASE ~run[k].start
    <3>1. Started(k)
      BY <2>2 DEF Attach
    <3> QED
      BY <1>1, <3>1, StartedStep
  <2> QED
    BY <2>1, <2>2
<1>3. /\ UNCHANGED <<containers, past>>
      /\ handle' = [handle EXCEPT ![Doing(k)] = run[k].id]
      /\ stdin' = [stdin EXCEPT ![Doing(k)] = run[k].id]
      /\ watchers' \subseteq watchers \cup {<<Doing(k), run[k].id>>}
      /\ watchers' = watchers \/ Persistent(k)
  BY DEF Attach, Watched
<1>4. Doing(k) \in Procs /\ Doing(k) = Place(run[k]) /\ run[k].id \in Ids
  BY <1>1, PlaceType DEF CallState
<1>5. DockerTypes'
  BY <1>2, <1>3, <1>4 DEF Basics, DockerTypes, CallStep, past
<1>6. /\ run[k].idx \in Nat /\ run[k].idx >= 1 /\ run[k].idx <= Length[run[k].cmd]
      /\ Kind[<<run[k].cmd, run[k].idx>>] = "image"
  BY <1>1 DEF Basics, CallsPlaced, Place, CallState
<1>7. CallsPlaced'
  <2>1. run'[k].idx >= 1
    BY <1>2, <1>6 DEF Place
  <2>2. run'[k].pc # "next" =>
           run'[k].idx <= Length[run'[k].cmd] /\ Kind[<<run'[k].cmd, run'[k].idx>>] = "image"
    BY <1>2, <1>6 DEF Place
  <2>3. run'[k].pc = "wait" => Mode[run'[k].cmd] # "persistent"
    BY <1>2 DEF Place, Persistent
  <2> QED
    BY <1>1, <1>2, <1>3, <2>1, <2>2, <2>3, CallsPlacedStep DEF Basics, past
<1>8. Fresh'
  <2>1. \A m \in Runs : run'[m].id \in {0, run[m].id} /\ run'[m].next \in {1, run[m].next}
    BY <1>2 DEF CallStep
  <2>2. created \in Nat /\ run[k].id <= created
    BY DEF Basics, DockerTypes, Fresh
  <2>3. \A m \in Runs : run'[m].id <= created' /\ 1 <= run'[m].next /\ run'[m].next <= created' + 1
    BY <1>3, <2>1, <2>2 DEF Basics, Fresh, past
  <2>4. \A p \in Procs : handle'[p] <= created'
    BY <1>3, <2>2 DEF Basics, DockerTypes, Fresh, past
  <2> QED
    BY <1>3, <2>3, <2>4 DEF Basics, Fresh, past
<1> QED
  BY <1>2, <1>3, <1>5, <1>7, <1>8 DEF Basics, StartsAt

LEMMA StartTypes ==
    ASSUME Basics, NEW k \in Runs, StartContainer(k)
    PROVE  /\ Basics' /\ CallStep(k) /\ StartsAt(k) /\ UNCHANGED <<maps, created, left>>
           /\ run[k].pc = "start" /\ run'[k].pc # "start"
           /\ stray \subseteq stray' /\ (run[k].loose => run[k].id \in stray')
           /\ watchers' \subseteq watchers \cup {<<Doing(k), run[k].id>>}
           /\ watchers' = watchers \/ Persistent(k)
           /\ \A c \in containers' : \E d \in containers :
                 /\ c.id = d.id /\ c.proc = d.proc /\ c.attempt = d.attempt
                 /\ c = d \/ c.id = run[k].id
<1>1. run[k] \in CallState /\ run[k].pc = "start" /\ run[k].id # 0
  BY DEF Basics, DockerTypes, CallsPlaced, StartContainer
<1>2. /\ CallStep(k)
      /\ \/ /\ Persistent(k) /\ run'[k].pc = "next" /\ run'[k].id = 0 /\ run'[k].idx = run[k].idx + 1
            /\ run'[k].next = 1
         \/ /\ run'[k].pc = "wait" /\ ~Persistent(k)
            /\ run'[k].id = run[k].id /\ Place(run'[k]) = Place(run[k]) /\ run'[k].next = run[k].next
  BY <1>1, StartedStep DEF StartContainer
<1>3. /\ UNCHANGED <<maps, created, left>>
      /\ stray' = IF run[k].loose THEN stray \cup {run[k].id} ELSE stray
      /\ watchers' \subseteq watchers \cup {<<Doing(k), run[k].id>>}
      /\ watchers' = watchers \/ Persistent(k)
  BY DEF StartContainer, Watched
<1>4. Doing(k) \in Procs /\ Doing(k) = Place(run[k]) /\ run[k].id \in Ids
  BY <1>1, PlaceType DEF CallState
<1> DEFINE Up(c) == IF c.id = run[k].id THEN [c EXCEPT !.state = "running"] ELSE c
<1>5. containers' = {Up(c) : c \in containers}
  BY DEF StartContainer
<1>6. \A c \in containers :
         /\ Up(c) \in Container
         /\ Up(c).id = c.id /\ Up(c).proc = c.proc /\ Up(c).attempt = c.attempt
         /\ Up(c) = c \/ c.id = run[k].id
  BY DEF Basics, DockerTypes, Container
<1> HIDE DEF Up
<1>7. \A c \in containers' : \E d \in containers :
         /\ c.id = d.id /\ c.proc = d.proc /\ c.attempt = d.attempt
         /\ c = d \/ c.id = run[k].id
  BY <1>5, <1>6
<1>8. containers' \subseteq Container
  BY <1>5, <1>6
<1>9. \A c, d \in containers' : c.id = d.id => c = d
  <2>1. \A c, d \in containers : c.id = d.id => c = d
    BY DEF Basics, Fresh
  <2> QED
    BY <1>5, <1>6, <2>1
<1>10. DockerTypes'
  BY <1>2, <1>3, <1>4, <1>8 DEF Basics, DockerTypes, CallStep, maps
<1>11. /\ run[k].idx \in Nat /\ run[k].idx >= 1 /\ run[k].idx <= Length[run[k].cmd]
       /\ Kind[<<run[k].cmd, run[k].idx>>] = "image"
  BY <1>1 DEF Basics, CallsPlaced, Place, CallState
<1>12. CallsPlaced'
  <2>1. run'[k].idx >= 1
    BY <1>2, <1>11 DEF Place
  <2>2. run'[k].pc # "next" =>
           run'[k].idx <= Length[run'[k].cmd] /\ Kind[<<run'[k].cmd, run'[k].idx>>] = "image"
    BY <1>2, <1>11 DEF Place
  <2>3. run'[k].pc = "wait" => Mode[run'[k].cmd] # "persistent"
    BY <1>2 DEF Place, Persistent
  <2> QED
    BY <1>1, <1>2, <1>3, <2>1, <2>2, <2>3, CallsPlacedStep DEF Basics
<1>13. Fresh'
  <2>1. \A m \in Runs : run'[m].id \in {0, run[m].id} /\ run'[m].next \in {1, run[m].next}
    BY <1>2 DEF CallStep
  <2>2. created \in Nat
    BY DEF Basics, DockerTypes
  <2>3. \A m \in Runs : run'[m].id <= created' /\ 1 <= run'[m].next /\ run'[m].next <= created' + 1
    BY <1>3, <2>1, <2>2 DEF Basics, Fresh
  <2>4. \A c \in containers' : c.id <= created' /\ c.attempt <= created'
    BY <1>3, <1>7 DEF Basics, Fresh
  <2> QED
    BY <1>3, <1>9, <2>3, <2>4 DEF Basics, Fresh, maps
<1> QED
  BY <1>1, <1>2, <1>3, <1>7, <1>10, <1>12, <1>13 DEF Basics, StartsAt

LEMMA BeginTypes ==
    ASSUME Basics, NEW k \in Runs, NEW c \in Commands, BeginRun(k, c)
    PROVE  /\ Basics' /\ UNCHANGED <<containers, maps, watchers, past>>
           /\ \A m \in Runs \ {k} : run'[m] = run[m]
           /\ run'[k].pc = "next" /\ run'[k].cmd = c /\ ~run'[k].loose
           /\ \A m \in Runs : run[m].cmd = c => run[m].loose
<1>1. PICK r : r = [Free EXCEPT !.pc = "next", !.cmd = c, !.idx = 1]
  OBVIOUS
<1>2. /\ r \in CallState
      /\ r.pc = "next" /\ r.cmd = c /\ r.idx = 1 /\ ~r.loose /\ r.id = 0 /\ r.next = 1
  BY <1>1 DEF Free, CallState
<1>3. /\ run' = [run EXCEPT ![k] = r] /\ UNCHANGED <<containers, maps, watchers, past>>
      /\ \A m \in Runs : run[m].cmd = c => run[m].loose
  BY <1>1 DEF BeginRun
<1>4. DockerTypes'
  BY <1>2, <1>3 DEF Basics, DockerTypes, maps, past
<1>5. CallsPlaced'
  BY <1>2, <1>3 DEF Basics, DockerTypes, CallsPlaced, Place, past
<1>6. Fresh'
  <2>1. created \in Nat
    BY DEF Basics, DockerTypes
  <2>2. r.id <= created /\ 1 <= r.next /\ r.next <= created + 1
    BY <1>2, <2>1
  <2> QED
    BY <1>3, <2>2 DEF Basics, DockerTypes, Fresh, maps, past
<1> QED
  BY <1>2, <1>3, <1>4, <1>5, <1>6 DEF Basics, DockerTypes

\* What a stop does to the calls: it leaves those at work on the commands behind.
Left(cmds) ==
    /\ run' \in [Runs -> CallState]
    /\ \A k \in Runs :
          /\ run'[k].pc = run[k].pc /\ run'[k].cmd = run[k].cmd /\ run'[k].idx = run[k].idx
          /\ run'[k].id = run[k].id /\ run'[k].next = run[k].next /\ run'[k].start = run[k].start
          /\ run'[k].loose = (run[k].loose \/ run[k].cmd \in cmds)
          /\ run[k].cmd \in cmds => run[k].cmd \in left'
    /\ left \subseteq left' /\ left' \subseteq left \cup cmds

LEMMA AbandonStep ==
    ASSUME DockerTypes, NEW cmds \in SUBSET Commands, Abandon(cmds)
    PROVE  Left(cmds)
<1>1. ASSUME NEW k \in Runs
      PROVE  LET r == IF run[k].cmd \in cmds THEN [run[k] EXCEPT !.loose = TRUE] ELSE run[k] IN
             /\ r \in CallState
             /\ r.pc = run[k].pc /\ r.cmd = run[k].cmd /\ r.idx = run[k].idx
             /\ r.id = run[k].id /\ r.next = run[k].next /\ r.start = run[k].start
             /\ r.loose = (run[k].loose \/ run[k].cmd \in cmds)
  <2>1. run[k] \in CallState
    BY DEF DockerTypes
  <2>2. CASE run[k].cmd \in cmds
    <3>1. PICK r : r = [run[k] EXCEPT !.loose = TRUE]
      OBVIOUS
    <3>2. /\ r \in CallState
          /\ r.pc = run[k].pc /\ r.cmd = run[k].cmd /\ r.idx = run[k].idx
          /\ r.id = run[k].id /\ r.next = run[k].next /\ r.start = run[k].start /\ r.loose = TRUE
      BY <2>1, <3>1 DEF CallState
    <3> QED
      BY <2>2, <3>1, <3>2
  <2>3. CASE run[k].cmd \notin cmds
    BY <2>1, <2>3 DEF CallState
  <2> QED
    BY <2>2, <2>3
<1>2. \A k \in Runs : run'[k] = IF run[k].cmd \in cmds THEN [run[k] EXCEPT !.loose = TRUE] ELSE run[k]
  BY DEF Abandon
<1>3. run' \in [Runs -> CallState]
  <2>1. run' = [k \in Runs |-> IF run[k].cmd \in cmds THEN [run[k] EXCEPT !.loose = TRUE] ELSE run[k]]
    BY DEF Abandon
  <2> QED
    BY <1>1, <2>1
<1>4. left \subseteq left' /\ left' \subseteq left \cup cmds
  BY DEF Abandon
<1>5. \A k \in Runs : run[k].cmd \in cmds => run[k].cmd \in left'
  BY DEF Abandon
<1> QED
  BY <1>1, <1>2, <1>3, <1>4, <1>5 DEF Left

LEMMA LeftTypes ==
    ASSUME Basics, NEW cmds \in SUBSET Commands, Left(cmds),
           containers' \subseteq containers, UNCHANGED <<watchers, created, stray>>,
           handle' \in [Procs -> Ids \cup {0}], stdin' \in [Procs -> Ids \cup {0}],
           \A p \in Procs : handle'[p] \in {0, handle[p]}
    PROVE  Basics'
<1>1. DockerTypes'
  BY DEF Basics, DockerTypes, Left
<1>2. CallsPlaced'
  <2>1. \A k \in Runs : run'[k].loose => run'[k].cmd \in left'
    BY DEF Basics, CallsPlaced, Left
  <2>2. \A k \in Runs : /\ run'[k].pc = run[k].pc /\ run'[k].cmd = run[k].cmd
                        /\ run'[k].idx = run[k].idx /\ run'[k].id = run[k].id
    BY DEF Left
  <2> QED
    BY <2>1, <2>2 DEF Basics, CallsPlaced, Place
<1>3. Fresh'
  <2>1. created \in Nat /\ (\A p \in Procs : handle[p] <= created) /\ UNCHANGED created
    BY DEF Basics, DockerTypes, Fresh
  <2>2. \A p \in Procs : handle'[p] <= created'
    BY <2>1
  <2>3. \A m \in Runs : run'[m].id <= created' /\ 1 <= run'[m].next /\ run'[m].next <= created' + 1
    BY <2>1 DEF Basics, Fresh, Left
  <2>4. \A c, d \in containers' : c \in containers /\ d \in containers
    OBVIOUS
  <2> QED
    BY <2>1, <2>2, <2>3, <2>4 DEF Basics, Fresh
<1> QED
  BY <1>1, <1>2, <1>3 DEF Basics

LEMMA StopTypes ==
    ASSUME Basics, StopAll \/ \E c \in Commands : StopOne(c)
    PROVE  /\ Basics' /\ containers' \subseteq containers /\ UNCHANGED <<watchers, created, stray>>
           /\ \E cmds \in SUBSET Commands :
                 /\ Left(cmds)
                 /\ \A p \in Procs : p[1] \notin cmds =>
                       \/ handle'[p] = handle[p] /\ stdin'[p] = stdin[p]
                       \/ \E c \in containers : c.id = handle[p] /\ c.proc[1] # p[1]
           /\ \A p \in Procs : handle'[p] \in {0, handle[p]}
<1>1. CASE StopAll
  <2>1. Left(Commands)
    BY <1>1, AbandonStep DEF StopAll, Basics
  <2>2. /\ containers' \subseteq containers /\ UNCHANGED <<watchers, created, stray>>
        /\ handle' \in [Procs -> Ids \cup {0}] /\ stdin' \in [Procs -> Ids \cup {0}]
        /\ \A p \in Procs : handle'[p] \in {0, handle[p]}
    BY <1>1 DEF StopAll, Basics, DockerTypes, maps
  <2>3. Basics'
    BY <2>1, <2>2, LeftTypes
  <2>4. \A p \in Procs : p[1] \in Commands
    BY CommandOfProcedure
  <2> QED
    BY <2>1, <2>2, <2>3, <2>4
<1>2. ASSUME NEW c \in Commands, StopOne(c)
      PROVE  /\ Basics' /\ containers' \subseteq containers /\ UNCHANGED <<watchers, created, stray>>
             /\ Left({c})
             /\ \A p \in Procs : p[1] # c =>
                   \/ handle'[p] = handle[p] /\ stdin'[p] = stdin[p]
                   \/ \E o \in containers : o.id = handle[p] /\ o.proc[1] # p[1]
             /\ \A p \in Procs : handle'[p] \in {0, handle[p]}
  <2> DEFINE gone == {o \in containers : o.proc[1] = c}
  <2>1. Left({c})
    BY <1>2, AbandonStep DEF StopOne, Basics
  <2>2. /\ containers' = containers \ gone /\ UNCHANGED <<watchers, created, stray>>
        /\ handle' = [p \in Procs |-> IF p \in Forgotten(gone) THEN 0 ELSE handle[p]]
        /\ stdin' = [p \in Procs |-> IF p \in Forgotten(gone) THEN 0 ELSE stdin[p]]
    BY <1>2 DEF StopOne
  <2>3. \A p \in Procs : p \in Forgotten(gone) => \E o \in containers : o.id = handle[p] /\ o.proc[1] = c
    BY DEF Forgotten
  <2> HIDE DEF gone
  <2>4. /\ handle' \in [Procs -> Ids \cup {0}] /\ stdin' \in [Procs -> Ids \cup {0}]
        /\ \A p \in Procs : handle'[p] \in {0, handle[p]}
    BY <2>2 DEF Basics, DockerTypes
  <2>5. Basics'
    BY <2>1, <2>2, <2>4, LeftTypes
  <2>6. \A p \in Procs : p[1] # c =>
           \/ handle'[p] = handle[p] /\ stdin'[p] = stdin[p]
           \/ \E o \in containers : o.id = handle[p] /\ o.proc[1] # p[1]
    BY <2>2, <2>3
  <2> QED
    BY <2>1, <2>2, <2>4, <2>5, <2>6
<1>3. ASSUME NEW c \in Commands, StopOne(c)
      PROVE  /\ Basics' /\ containers' \subseteq containers /\ UNCHANGED <<watchers, created, stray>>
             /\ \E cmds \in SUBSET Commands :
                 /\ Left(cmds)
                 /\ \A p \in Procs : p[1] \notin cmds =>
                       \/ handle'[p] = handle[p] /\ stdin'[p] = stdin[p]
                       \/ \E o \in containers : o.id = handle[p] /\ o.proc[1] # p[1]
             /\ \A p \in Procs : handle'[p] \in {0, handle[p]}
  <2>1. {c} \in SUBSET Commands /\ \A x : x \notin {c} <=> x # c
    OBVIOUS
  <2>2. /\ Left({c})
        /\ \A p \in Procs : p[1] \notin {c} =>
              \/ handle'[p] = handle[p] /\ stdin'[p] = stdin[p]
              \/ \E o \in containers : o.id = handle[p] /\ o.proc[1] # p[1]
    BY <1>2, <1>3, <2>1
  <2> QED
    BY <1>2, <1>3, <2>1, <2>2
<1> QED
  BY <1>1, <1>3

LEMMA RestartTypes ==
    ASSUME Basics, Restart
    PROVE  /\ Basics' /\ UNCHANGED <<containers, created, stray>> /\ watchers' = {} /\ left' = {}
           /\ \A k \in Runs : run'[k] = Free
           /\ \A p \in Procs : handle'[p] = 0
<1>1. /\ UNCHANGED <<containers, created, stray>> /\ watchers' = {} /\ left' = {}
      /\ run' = [k \in Runs |-> Free]
      /\ handle' = [p \in Procs |-> 0] /\ stdin' = [p \in Procs |-> 0]
  BY DEF Restart
<1>2. DockerTypes'
  BY <1>1, FreeType DEF Basics, DockerTypes
<1>3. \A k \in Runs : run'[k].pc = "free" /\ ~run'[k].loose /\ run'[k].id = 0 /\ run'[k].next = 1
  BY <1>1 DEF Free
<1>4. CallsPlaced'
  BY <1>3 DEF CallsPlaced
<1>5. Fresh'
  <2>1. created \in Nat
    BY DEF Basics, DockerTypes
  <2> QED
    BY <1>1, <1>3, <2>1 DEF Basics, Fresh
<1> QED
  BY <1>1, <1>2, <1>4, <1>5 DEF Basics

LEMMA WatcherTypes ==
    ASSUME Basics, NEW w \in watchers, WatcherEnds(w[1], w[2])
    PROVE  /\ Basics' /\ containers' \subseteq containers /\ UNCHANGED <<run, past>>
           /\ watchers' \subseteq watchers
           /\ \A p \in Procs : handle'[p] \in {0, handle[p]}
           /\ \A p \in Procs : p # w[1] => handle'[p] = handle[p] /\ stdin'[p] = stdin[p]
<1>1. /\ containers' \subseteq containers /\ UNCHANGED <<run, past>> /\ watchers' \subseteq watchers
      /\ Clear(w[1])
  BY TryRemoveShrinks DEF WatcherEnds
<1>2. /\ handle' \in [Procs -> Ids \cup {0}] /\ stdin' \in [Procs -> Ids \cup {0}]
      /\ \A p \in Procs : handle'[p] \in {0, handle[p]}
      /\ \A p \in Procs : p # w[1] => handle'[p] = handle[p] /\ stdin'[p] = stdin[p]
  BY <1>1, ClearType DEF Basics
<1>3. DockerTypes' /\ CallsPlaced'
  BY <1>1, <1>2 DEF Basics, DockerTypes, CallsPlaced, past
<1>4. Fresh'
  <2>1. created \in Nat
    BY DEF Basics, DockerTypes
  <2>2. \A p \in Procs : handle'[p] <= created'
    BY <1>1, <1>2, <2>1 DEF Basics, Fresh, past
  <2>3. \A c, d \in containers' : c \in containers /\ d \in containers
    BY <1>1
  <2> QED
    BY <1>1, <2>2, <2>3 DEF Basics, Fresh, past
<1> QED
  BY <1>1, <1>2, <1>3, <1>4 DEF Basics

LEMMA ExitTypes ==
    ASSUME Basics, NEW c \in containers, NEW state \in {"exited0", "exited1"}, ContainerExits(c, state)
    PROVE  /\ Basics' /\ UNCHANGED <<maps, run, watchers, past>>
           /\ \A e \in containers' : \E d \in containers :
                 /\ e.id = d.id /\ e.proc = d.proc /\ e.attempt = d.attempt
                 /\ Running(e) => Running(d)
                 /\ e.state = "running" => e = d
<1>1. PICK x : x = [c EXCEPT !.state = state]
  OBVIOUS
<1>2. /\ x \in Container /\ c \in Container
      /\ x.id = c.id /\ x.proc = c.proc /\ x.attempt = c.attempt /\ x.state = state
  BY <1>1 DEF Basics, DockerTypes, Container
<1>3. containers' = (containers \ {c}) \cup {x} /\ UNCHANGED <<maps, run, watchers, past>>
  BY <1>1 DEF ContainerExits
<1>4. \A e \in containers' : \E d \in containers :
         /\ e.id = d.id /\ e.proc = d.proc /\ e.attempt = d.attempt
         /\ Running(e) => Running(d)
         /\ e.state = "running" => e = d
  <2>1. ~Running(x) /\ x.state # "running"
    BY <1>2 DEF Running
  <2> QED
    BY <1>2, <1>3, <2>1
<1>5. DockerTypes' /\ CallsPlaced'
  BY <1>2, <1>3 DEF Basics, DockerTypes, CallsPlaced, maps, past
<1>6. \A d, e \in containers' : d.id = e.id => d = e
  BY <1>2, <1>3 DEF Basics, Fresh
<1>7. Fresh'
  BY <1>3, <1>4, <1>6 DEF Basics, Fresh, maps, past
<1> QED
  BY <1>3, <1>4, <1>5, <1>7 DEF Basics
-----------------------------------------------------------------------------
(* Docker: one container, and the way to it                                *)

\* The container a call has found or made is one of its procedure.
OwnOf(k) ==
    run[k].pc \in {"attach", "start", "wait"} =>
        \A c \in containers : c.id = run[k].id => c.proc = Place(run[k])

\* Nothing else runs of a procedure whose container a call is to create or
\* start, unless calls that stops left behind have made or started it.
SoleOf(k) ==
    ~run[k].loose =>
        /\ run[k].pc = "prune" =>
              \A c \in containers : c.proc = Place(run[k]) /\ Running(c) => c.id \in stray
        /\ run[k].pc \in {"attach", "start"} =>
              \/ run[k].id \in stray
              \/ \A c \in containers : c.proc = Place(run[k]) /\ Running(c) =>
                    c.id = run[k].id \/ c.id \in stray

\* What the call is to start or waits for is what the maps lead to; a watcher
\* of a persistent procedure may have cleared them before the start.
LedOf(k) ==
    run[k].pc \in {"start", "wait"} /\ run[k].cmd \notin left =>
        \/ handle[Place(run[k])] = run[k].id /\ stdin[Place(run[k])] = run[k].id
        \/ /\ run[k].pc = "start" /\ Mode[run[k].cmd] = "persistent"
           /\ handle[Place(run[k])] = 0

\* A command has one call, apart from those that stops left behind.
OneRun ==
    \A k, m \in Runs :
        run[k].pc # "free" /\ run[m].pc # "free" /\ run[k].cmd = run[m].cmd =>
            k = m \/ run[k].loose \/ run[m].loose

WatchersPersist == \A w \in watchers : Mode[w[1][1]] = "persistent"

\* An entry leads to a container of its procedure ...
HandlesOwn == \A p \in Procs, d \in containers : d.id = handle[p] => d.proc = p

\* ... and past one that runs only where calls outlived a stop.
HandlesRight ==
    \A c, d \in containers :
        c.state = "running" /\ c.proc[1] \notin left /\ d.id = handle[c.proc] =>
            d = c \/ c.id \in stray \/ d.id \in stray

DockerInv ==
    /\ Basics
    /\ \A k \in Runs : OwnOf(k) /\ SoleOf(k) /\ LedOf(k)
    /\ OneRun /\ WatchersPersist /\ HandlesOwn /\ HandlesRight
    /\ OneContainer

\* Containers end or go, and nothing starts.
Dwindles ==
    \A c \in containers' : \E d \in containers :
        /\ c.id = d.id /\ c.proc = d.proc
        /\ Running(c) => Running(d)
        /\ c.state = "running" => c = d

\* A call stays where it is; a stop may leave it behind.
Stays(m) ==
    /\ run'[m].pc = run[m].pc /\ run'[m].cmd = run[m].cmd /\ run'[m].idx = run[m].idx
    /\ run'[m].id = run[m].id
    /\ run[m].loose => run'[m].loose

LEMMA SubsetDwindles ==
    ASSUME containers' \subseteq containers
    PROVE  Dwindles
BY DEF Dwindles, Running

LEMMA OneContainerDwindles ==
    ASSUME DockerInv, Basics', Dwindles, stray \subseteq stray'
    PROVE  OneContainer'
<1>1. ASSUME NEW c \in containers', NEW d \in containers', Running(c), Running(d), c.proc = d.proc
      PROVE  c = d \/ c.id \in stray' \/ d.id \in stray'
  <2>1. PICK c0 \in containers : c.id = c0.id /\ c.proc = c0.proc /\ Running(c0)
    BY <1>1 DEF Dwindles
  <2>2. PICK d0 \in containers : d.id = d0.id /\ d.proc = d0.proc /\ Running(d0)
    BY <1>1 DEF Dwindles
  <2>3. c0 = d0 \/ c0.id \in stray \/ d0.id \in stray
    BY <1>1, <2>1, <2>2 DEF DockerInv, OneContainer
  <2> QED
    BY <2>1, <2>2, <2>3 DEF Basics, Fresh
<1> QED
  BY <1>1 DEF OneContainer, Running

LEMMA CallStaysOwn ==
    ASSUME DockerInv, Dwindles, stray \subseteq stray', NEW m \in Runs, Stays(m)
    PROVE  OwnOf(m)' /\ SoleOf(m)'
<1>1. OwnOf(m) /\ SoleOf(m)
  BY DEF DockerInv
<1>2. Place(run[m])' = Place(run[m])
  BY DEF Stays, Place
<1>3. OwnOf(m)'
  BY <1>1, <1>2 DEF OwnOf, Stays, Dwindles
<1>4. SoleOf(m)'
  <2>1. ASSUME ~run'[m].loose PROVE ~run[m].loose
    BY <2>1 DEF Stays
  <2>2. ASSUME ~run'[m].loose, run'[m].pc = "prune", NEW c \in containers', Running(c),
               c.proc = Place(run[m])
        PROVE  c.id \in stray'
    <3>1. PICK d \in containers : c.id = d.id /\ c.proc = d.proc /\ Running(d)
      BY <2>2 DEF Dwindles
    <3> QED
      BY <1>1, <2>1, <2>2, <3>1 DEF SoleOf, Stays
  <2>3. ASSUME ~run'[m].loose, run'[m].pc \in {"attach", "start"}, run'[m].id \notin stray',
               NEW c \in containers', Running(c), c.proc = Place(run[m])
        PROVE  c.id = run'[m].id \/ c.id \in stray'
    <3>1. PICK d \in containers : c.id = d.id /\ c.proc = d.proc /\ Running(d)
      BY <2>3 DEF Dwindles
    <3> QED
      BY <1>1, <2>1, <2>3, <3>1 DEF SoleOf, Stays
  <2> QED
    BY <1>2, <2>2, <2>3 DEF SoleOf, Running
<1> QED
  BY <1>3, <1>4

LEMMA HandlesDwindle ==
    ASSUME DockerInv, Basics', Dwindles, stray \subseteq stray',
           left \subseteq left' \/ \A p \in Procs : handle'[p] = 0,
           \A p \in Procs : handle'[p] \in {0, handle[p]}
    PROVE  HandlesOwn' /\ HandlesRight'
<1>1. \A c \in containers' : c.id # 0 /\ c.proc \in Procs
  BY DEF Basics, DockerTypes, Container, Ids
<1>2. HandlesOwn'
  <2>1. ASSUME NEW p \in Procs, NEW d \in containers', d.id = handle'[p] PROVE d.proc = p
    <3>1. PICK e \in containers : d.id = e.id /\ d.proc = e.proc
      BY DEF Dwindles
    <3> QED
      BY <1>1, <2>1, <3>1 DEF DockerInv, HandlesOwn
  <2> QED
    BY <2>1 DEF HandlesOwn
<1>3. HandlesRight'
  <2>1. ASSUME NEW c \in containers', NEW d \in containers', c.state = "running",
               c.proc[1] \notin left', d.id = handle'[c.proc]
        PROVE  d = c \/ c.id \in stray' \/ d.id \in stray'
    <3>1. c \in containers
      BY <2>1 DEF Dwindles
    <3>2. PICK e \in containers : d.id = e.id /\ d.proc = e.proc
      BY DEF Dwindles
    <3>3. handle'[c.proc] = handle[c.proc] /\ c.proc[1] \notin left
      BY <1>1, <2>1
    <3>4. e = c \/ c.id \in stray \/ e.id \in stray
      BY <2>1, <3>1, <3>2, <3>3 DEF DockerInv, HandlesRight
    <3> QED
      BY <3>2, <3>4 DEF Basics, Fresh
  <2> QED
    BY <2>1 DEF HandlesRight
<1> QED
  BY <1>2, <1>3

\* The other calls of a call's step.
LEMMA OthersStay ==
    ASSUME NEW k \in Runs, CallStep(k), NEW m \in Runs \ {k}
    PROVE  Stays(m)
BY DEF CallStep, Stays

LEMMA OneRunStep ==
    ASSUME DockerInv, NEW k \in Runs, CallStep(k)
    PROVE  OneRun'
<1>1. OneRun
  BY DEF DockerInv
<1>2. \A m \in Runs : run'[m].pc # "free" =>
          run[m].pc # "free" /\ run'[m].cmd = run[m].cmd /\ run'[m].loose = run[m].loose
  BY DEF CallStep
<1> QED
  BY <1>1, <1>2 DEF OneRun

\* Another call of the same procedure is left behind, or this one is.
LEMMA SamePlace ==
    ASSUME DockerInv, NEW k \in Runs, NEW m \in Runs, k # m,
           run[k].pc # "free", run[m].pc # "free", Place(run[k]) = Place(run[m])
    PROVE  run[m].cmd \in left
BY DEF DockerInv, OneRun, Basics, CallsPlaced, Place

LEMMA LedStays ==
    ASSUME DockerInv, NEW m \in Runs, Stays(m), left \subseteq left',
           \/ handle'[Place(run[m])] = handle[Place(run[m])] /\ stdin'[Place(run[m])] = stdin[Place(run[m])]
           \/ run[m].pc \notin {"start", "wait"} \/ run[m].cmd \in left'
    PROVE  LedOf(m)'
<1>1. LedOf(m) /\ Place(run[m])' = Place(run[m])
  BY DEF DockerInv, Stays, Place
<1> QED
  BY <1>1 DEF LedOf, Stays

\* The calls of the step of one of them that moves entries of its own
\* procedure only, and containers down only.
LEMMA OthersKeep ==
    ASSUME DockerInv, Basics', NEW k \in Runs, CallStep(k), Dwindles, stray \subseteq stray',
           left \subseteq left',
           \/ UNCHANGED maps
           \/ /\ run[k].pc # "free"
              /\ \A p \in Procs : p # Place(run[k]) => handle'[p] = handle[p] /\ stdin'[p] = stdin[p],
           NEW m \in Runs \ {k}
    PROVE  OwnOf(m)' /\ SoleOf(m)' /\ LedOf(m)'
<1>1. Stays(m)
  BY OthersStay
<1>2. OwnOf(m)' /\ SoleOf(m)'
  BY <1>1, CallStaysOwn
<1>3. run[m].pc \in {"start", "wait"} => Place(run[m]) \in Procs
  BY PlaceType DEF DockerInv
<1>4. \/ handle'[Place(run[m])] = handle[Place(run[m])] /\ stdin'[Place(run[m])] = stdin[Place(run[m])]
      \/ run[m].pc \notin {"start", "wait"} \/ run[m].cmd \in left'
  <2>1. CASE UNCHANGED maps
    BY <2>1 DEF maps
  <2>2. CASE /\ run[k].pc # "free"
             /\ \A p \in Procs : p # Place(run[k]) => handle'[p] = handle[p] /\ stdin'[p] = stdin[p]
    <3>1. CASE run[m].pc \in {"start", "wait"} /\ Place(run[m]) = Place(run[k])
      <4>1. run[m].cmd \in left
        BY <2>2, <3>1, SamePlace
      <4> QED
        BY <4>1
    <3> QED
      BY <1>3, <2>2, <3>1
  <2> QED
    BY <2>1, <2>2
<1>5. LedOf(m)'
  BY <1>1, <1>4, LedStays
<1> QED
  BY <1>2, <1>5

\* A call that has nothing at hand any more.
LEMMA NothingAtHand ==
    ASSUME NEW k, run'[k].pc \in {"free", "next"}
    PROVE  OwnOf(k)' /\ SoleOf(k)' /\ LedOf(k)'
BY DEF OwnOf, SoleOf, LedOf

\* A step of a call that starts nothing preserves the invariant, if the call
\* itself keeps its share.
LEMMA QuietStep ==
    ASSUME DockerInv, Basics', NEW k \in Runs, CallStep(k), Dwindles,
           UNCHANGED <<watchers, stray, left>>,
           \A p \in Procs : handle'[p] \in {0, handle[p]},
           \/ UNCHANGED maps
           \/ /\ run[k].pc # "free"
              /\ \A p \in Procs : p # Place(run[k]) => handle'[p] = handle[p] /\ stdin'[p] = stdin[p],
           OwnOf(k)' /\ SoleOf(k)' /\ LedOf(k)'
    PROVE  DockerInv'
<1>1. \A m \in Runs : OwnOf(m)' /\ SoleOf(m)' /\ LedOf(m)'
  BY OthersKeep
<1>2. OneRun' /\ OneContainer' /\ HandlesOwn' /\ HandlesRight'
  BY OneRunStep, OneContainerDwindles, HandlesDwindle
<1>3. WatchersPersist'
  BY DEF DockerInv, WatchersPersist
<1> QED
  BY <1>1, <1>2, <1>3 DEF DockerInv

LEMMA LeavesInv ==
    ASSUME DockerInv, NEW k \in Runs,
           \/ RunFinished(k) \/ RunNoImage(k) \/ AttachFails(k) \/ SetupFails(k) \/ StartFails(k)
           \/ \E state \in {"exited0", "exited1", "error"} : WaitEnds(k, state)
    PROVE  DockerInv'
<1>1. Basics' /\ CallStep(k) /\ containers' \subseteq containers
  BY LeavesTypes DEF DockerInv
<1>2. Dwindles
  BY <1>1, SubsetDwindles
<1>3. run'[k].pc \in {"free", "next"}
  BY NextProcedureStep, ReturnStep DEF RunFinished, RunNoImage, AttachFails, SetupFails, StartFails,
     WaitEnds, DockerInv, Basics, Free
<1>4. UNCHANGED <<watchers, stray, left>>
  BY DEF RunFinished, RunNoImage, AttachFails, SetupFails, StartFails, WaitEnds, past
<1>5. \/ UNCHANGED maps
      \/ /\ run[k].pc \in {"attach", "start", "wait"}
         /\ Clear(Doing(k)) \/ (handle' = [handle EXCEPT ![Doing(k)] = 0] /\ UNCHANGED stdin)
  BY DEF RunFinished, RunNoImage, AttachFails, SetupFails, StartFails, WaitEnds, maps
<1>6. Doing(k) = Place(run[k])
  BY DEF Doing, Place
<1>7. /\ \A p \in Procs : handle'[p] \in {0, handle[p]}
      /\ \/ UNCHANGED maps
         \/ /\ run[k].pc # "free"
            /\ \A p \in Procs : p # Place(run[k]) => handle'[p] = handle[p] /\ stdin'[p] = stdin[p]
  BY <1>5, <1>6, ClearType DEF DockerInv, Basics, DockerTypes, maps
<1> QED
  BY <1>1, <1>2, <1>3, <1>4, <1>7, NothingAtHand, QuietStep

LEMMA SignalInv ==
    ASSUME DockerInv, NEW k \in Runs, SignalProcedure(k)
    PROVE  DockerInv'
<1>1. Basics' /\ CallStep(k)
  BY SignalTypes DEF DockerInv
<1>2. Dwindles
  BY SignalTypes DEF DockerInv, Dwindles
<1>3. run'[k].pc \in {"free", "next"}
  BY NextProcedureStep, ReturnStep DEF SignalProcedure, RunAt, DockerInv, Basics, Free
<1>4. UNCHANGED <<maps, watchers, stray, left>>
  BY DEF SignalProcedure, past
<1> QED
  BY <1>1, <1>2, <1>3, <1>4, NothingAtHand, QuietStep DEF maps

LEMMA ListInv ==
    ASSUME DockerInv, NEW k \in Runs, ListContainers(k)
    PROVE  DockerInv'
<1>1. Basics' /\ CallStep(k) /\ Place(run'[k]) = Doing(k)
  BY ListTypes DEF DockerInv
<1>2. UNCHANGED <<containers, maps, watchers, stray, left>>
  BY DEF ListContainers, past
<1>3. Dwindles
  BY <1>2, SubsetDwindles
<1>4. CASE /\ run'[k].pc = "attach"
           /\ \E c \in ReusableContainers(Doing(k)) : run'[k].id = c.id
  <2>1. PICK c \in containers : c.proc = Doing(k) /\ Running(c) /\ run'[k].id = c.id
    BY <1>4 DEF ReusableContainers, ContainersOf
  <2>2. OwnOf(k)'
    BY <1>1, <1>2, <1>4, <2>1 DEF OwnOf, DockerInv, Basics, Fresh
  <2>3. SoleOf(k)'
    <3>1. \A d \in containers : d.proc = Doing(k) /\ Running(d) =>
             d.id = c.id \/ d.id \in stray \/ c.id \in stray
      BY <2>1 DEF DockerInv, OneContainer
    <3> QED
      BY <1>1, <1>2, <1>4, <2>1, <3>1 DEF SoleOf, Running
  <2>4. LedOf(k)'
    BY <1>4 DEF LedOf
  <2> QED
    BY <1>1, <1>2, <1>3, <2>2, <2>3, <2>4, QuietStep DEF maps
<1>5. CASE run'[k].pc = "prune" /\ ReusableContainers(Doing(k)) = {}
  <2>1. SoleOf(k)'
    BY <1>1, <1>2, <1>5 DEF SoleOf, ReusableContainers, ContainersOf, Running
  <2>2. OwnOf(k)' /\ LedOf(k)'
    BY <1>5 DEF OwnOf, LedOf
  <2> QED
    BY <1>1, <1>2, <1>3, <2>1, <2>2, QuietStep DEF maps
<1> QED
  BY <1>4, <1>5, ListTypes DEF DockerInv

LEMMA PruneInv ==
    ASSUME DockerInv, NEW k \in Runs, NEW i \in run[k].todo, PruneListed(k, i)
    PROVE  DockerInv'
<1>1. /\ Basics' /\ CallStep(k) /\ containers' \subseteq containers
      /\ run[k].pc = "prune" /\ run'[k].pc = "prune" /\ Place(run'[k]) = Place(run[k])
  BY PruneTypes DEF DockerInv
<1>2. UNCHANGED <<maps, watchers, stray, left>>
  BY DEF PruneListed, past
<1>3. OwnOf(k)' /\ LedOf(k)'
  BY <1>1 DEF OwnOf, LedOf
<1>4. SoleOf(k)'
  BY <1>1, <1>2 DEF SoleOf, DockerInv, CallStep, Running
<1>5. Dwindles
  BY <1>1, SubsetDwindles
<1> QED
  BY <1>1, <1>2, <1>3, <1>4, <1>5, QuietStep DEF maps

LEMMA CreateInv ==
    ASSUME DockerInv, NEW k \in Runs, CreateContainer(k)
    PROVE  DockerInv'
<1>1. /\ Basics' /\ CallStep(k)
      /\ run[k].pc = "prune" /\ run'[k].pc = "attach" /\ Place(run'[k]) = Place(run[k])
      /\ run'[k].id = created + 1 /\ created \in Nat
  BY CreateTypes DEF DockerInv, Basics, DockerTypes
<1>2. PICK c \in Container : /\ containers' = containers \cup {c}
                             /\ c.id = created + 1 /\ c.proc = Place(run[k]) /\ c.state = "created"
  BY CreateTypes DEF DockerInv, Doing, Place
<1>3. /\ UNCHANGED <<maps, watchers, left>>
      /\ stray' = IF run[k].loose THEN stray \cup {created + 1} ELSE stray
  BY DEF CreateContainer
<1>4. /\ \A d \in containers : d.id # created + 1
      /\ \A m \in Runs : run[m].id # created + 1
      /\ \A p \in Procs : handle[p] # created + 1
  <2>1. /\ \A d \in containers : d.id \in Nat /\ d.id <= created
        /\ \A m \in Runs : run[m].id \in Nat /\ run[m].id <= created
        /\ \A p \in Procs : handle[p] \in Nat /\ handle[p] <= created
    BY DEF DockerInv, Basics, DockerTypes, Fresh, Container, CallState, Ids
  <2> QED
    BY <1>1, <2>1
<1>5. ASSUME NEW d \in containers, d.proc = Place(run[k]), Running(d)
      PROVE  d.id \in stray' \/ c.id \in stray'
  BY <1>1, <1>2, <1>3, <1>5 DEF DockerInv, SoleOf
<1>6. OneContainer'
  BY <1>2, <1>3, <1>5 DEF DockerInv, OneContainer, Running
<1>7. OwnOf(k)' /\ SoleOf(k)' /\ LedOf(k)'
  <2>1. OwnOf(k)'
    BY <1>1, <1>2, <1>4 DEF OwnOf
  <2>2. SoleOf(k)'
    BY <1>1, <1>2, <1>3, <1>5 DEF SoleOf, Running
  <2>3. LedOf(k)'
    BY <1>1 DEF LedOf
  <2> QED
    BY <2>1, <2>2, <2>3
<1>8. ASSUME NEW m \in Runs \ {k} PROVE OwnOf(m)' /\ SoleOf(m)' /\ LedOf(m)'
  <2>1. run'[m] = run[m] /\ Place(run'[m]) = Place(run[m]) /\ OwnOf(m) /\ SoleOf(m) /\ LedOf(m)
    BY <1>1 DEF CallStep, Place, DockerInv
  <2>2. OwnOf(m)'
    BY <1>2, <1>4, <2>1 DEF OwnOf
  <2>3. SoleOf(m)'
    <3>1. CASE Place(run[m]) # Place(run[k])
      BY <1>2, <1>3, <2>1, <3>1 DEF SoleOf, Running
    <3>2. CASE Place(run[m]) = Place(run[k])
      <4>1. run[m].pc # "free" /\ ~run[m].loose => run[k].loose
        BY <1>1, <3>2 DEF DockerInv, OneRun, Place
      <4>2. run[m].pc # "free" /\ ~run[m].loose => c.id \in stray'
        BY <1>2, <1>3, <4>1
      <4> QED
        BY <1>2, <1>3, <2>1, <4>2 DEF SoleOf, Running
    <3> QED
      BY <3>1, <3>2
  <2>4. LedOf(m)'
    BY <1>3, <2>1 DEF LedOf, maps
  <2> QED
    BY <2>2, <2>3, <2>4
<1>9. HandlesOwn' /\ HandlesRight'
  <2>1. HandlesOwn'
    BY <1>2, <1>3, <1>4 DEF DockerInv, HandlesOwn, maps
  <2>2. c.state # "running" /\ stray \subseteq stray'
    BY <1>2, <1>3
  <2>3. \A d \in containers' : d.state = "running" => d \in containers /\ d.proc \in Procs
    BY <1>2, <2>2 DEF DockerInv, Basics, DockerTypes, Container
  <2>4. HandlesRight'
    BY <1>2, <1>3, <1>4, <2>2, <2>3 DEF DockerInv, HandlesRight, maps
  <2> QED
    BY <2>1, <2>4
<1>10. OneRun' /\ WatchersPersist'
  BY <1>1, <1>3, OneRunStep DEF DockerInv, WatchersPersist
<1> QED
  BY <1>1, <1>6, <1>7, <1>8, <1>9, <1>10 DEF DockerInv

\* Only containers of persistent procedures get a goroutine.
LEMMA WatchersGrow ==
    ASSUME WatchersPersist, NEW k \in Runs,
           watchers' \subseteq watchers \cup {<<Doing(k), run[k].id>>},
           watchers' = watchers \/ Persistent(k)
    PROVE  WatchersPersist'
BY DEF WatchersPersist, Persistent, Doing

LEMMA AttachInv ==
    ASSUME DockerInv, NEW k \in Runs, Attach(k)
    PROVE  DockerInv'
<1>1. /\ Basics' /\ CallStep(k) /\ StartsAt(k)
      /\ watchers' \subseteq watchers \cup {<<Doing(k), run[k].id>>}
      /\ watchers' = watchers \/ Persistent(k)
  BY AttachTypes DEF DockerInv
<1> DEFINE p == Place(run[k])
<1>2. run[k].pc = "attach" /\ p \in Procs /\ p = Doing(k)
  BY PlaceType DEF DockerInv, Attach
<1>3. /\ UNCHANGED <<containers, stray, left>>
      /\ handle' = [handle EXCEPT ![p] = run[k].id]
      /\ stdin' = [stdin EXCEPT ![p] = run[k].id]
  BY <1>2 DEF Attach, past
<1>4. /\ handle'[p] = run[k].id /\ stdin'[p] = run[k].id
      /\ \A q \in Procs : q # p => handle'[q] = handle[q] /\ stdin'[q] = stdin[q]
  BY <1>2, <1>3 DEF DockerInv, Basics, DockerTypes
<1>5. Dwindles
  BY <1>3, SubsetDwindles
<1>6. \A m \in Runs \ {k} : OwnOf(m)' /\ SoleOf(m)' /\ LedOf(m)'
  BY <1>1, <1>2, <1>3, <1>4, <1>5, OthersKeep
<1>7. OwnOf(k) /\ SoleOf(k)
  BY DEF DockerInv
<1>8. OwnOf(k)' /\ SoleOf(k)' /\ LedOf(k)'
  <2>1. CASE run'[k].pc = "next"
    BY <2>1, NothingAtHand
  <2>2. CASE run'[k].pc \in {"start", "wait"} /\ run'[k].id = run[k].id /\ Place(run'[k]) = p
    <3>1. OwnOf(k)'
      BY <1>2, <1>3, <1>7, <2>2 DEF OwnOf
    <3>2. SoleOf(k)'
      BY <1>1, <1>2, <1>3, <1>7, <2>2 DEF SoleOf, Running, CallStep
    <3>3. LedOf(k)'
      BY <1>4, <2>2 DEF LedOf
    <3> QED
      BY <3>1, <3>2, <3>3
  <2> QED
    BY <1>1, <2>1, <2>2 DEF StartsAt
<1>9. HandlesOwn'
  BY <1>2, <1>3, <1>4, <1>7 DEF DockerInv, HandlesOwn, OwnOf
<1>10. HandlesRight'
  <2>1. ASSUME NEW c \in containers, NEW d \in containers, c.state = "running",
               c.proc[1] \notin left, d.id = handle'[c.proc]
        PROVE  d = c \/ c.id \in stray \/ d.id \in stray
    <3>1. CASE c.proc # p
      BY <1>4, <2>1, <3>1 DEF DockerInv, HandlesRight, Basics, DockerTypes, Container
    <3>2. CASE c.proc = p
      <4>1. d.id = run[k].id /\ ~run[k].loose /\ Running(c)
        BY <1>4, <2>1, <3>2 DEF DockerInv, Basics, CallsPlaced, Place, Running
      <4>2. run[k].id \in stray \/ c.id = run[k].id \/ c.id \in stray
        BY <1>2, <1>7, <3>2, <4>1 DEF SoleOf
      <4> QED
        BY <4>1, <4>2 DEF DockerInv, Basics, Fresh
    <3> QED
      BY <3>1, <3>2
  <2> QED
    BY <1>3, <2>1 DEF HandlesRight
<1>11. OneRun' /\ OneContainer'
  BY <1>1, <1>3, <1>5, OneRunStep, OneContainerDwindles
<1>12. WatchersPersist'
  BY <1>1, WatchersGrow DEF DockerInv
<1> QED
  BY <1>1, <1>6, <1>8, <1>9, <1>10, <1>11, <1>12 DEF DockerInv

LEMMA StartInv ==
    ASSUME DockerInv, NEW k \in Runs, StartContainer(k)
    PROVE  DockerInv'
<1> DEFINE p == Place(run[k])
<1>1. /\ Basics' /\ CallStep(k) /\ StartsAt(k) /\ UNCHANGED <<maps, created, left>>
      /\ run[k].pc = "start" /\ run'[k].pc # "start"
      /\ stray \subseteq stray' /\ (run[k].loose => run[k].id \in stray')
      /\ watchers' \subseteq watchers \cup {<<Doing(k), run[k].id>>}
      /\ watchers' = watchers \/ Persistent(k)
  BY StartTypes DEF DockerInv
<1>2. \A c \in containers' : \E d \in containers :
         /\ c.id = d.id /\ c.proc = d.proc
         /\ c = d \/ c.id = run[k].id
  BY StartTypes DEF DockerInv
<1>3. OwnOf(k) /\ SoleOf(k) /\ LedOf(k)
  BY DEF DockerInv
<1>4. \A c \in containers' : \E d \in containers : c.id = d.id /\ c.proc = d.proc
  BY <1>2
<1>5. \A c \in containers' : c.id = run[k].id => c.proc = p
  BY <1>1, <1>3, <1>4 DEF OwnOf
<1>6. \A c \in containers' : c.id # run[k].id => c \in containers
  BY <1>2
\* What else runs of the procedure, runs on only beside a call left behind.
<1>7. ASSUME NEW d \in containers', Running(d), d.proc = p
      PROVE  d.id = run[k].id \/ d.id \in stray' \/ run[k].id \in stray'
  <2>1. CASE d.id # run[k].id /\ ~run[k].loose
    <3>1. d \in containers
      BY <1>6, <2>1
    <3> QED
      BY <1>1, <1>3, <1>7, <2>1, <3>1 DEF SoleOf
  <2> QED
    BY <1>1, <2>1
<1>8. OneContainer'
  <2>1. ASSUME NEW c \in containers', NEW d \in containers', Running(c), Running(d), c.proc = d.proc
        PROVE  c = d \/ c.id \in stray' \/ d.id \in stray'
    <3>1. \A x, y \in containers' : x.id = y.id => x = y
      BY <1>1 DEF Basics, Fresh
    <3>2. CASE c.id = run[k].id
      BY <1>5, <1>7, <2>1, <3>1, <3>2
    <3>3. CASE d.id = run[k].id
      BY <1>5, <1>7, <2>1, <3>1, <3>3
    <3>4. CASE c.id # run[k].id /\ d.id # run[k].id
      BY <1>1, <1>6, <2>1, <3>4 DEF DockerInv, OneContainer
    <3> QED
      BY <3>2, <3>3, <3>4
  <2> QED
    BY <2>1 DEF OneContainer, Running
<1>9. OwnOf(k)' /\ SoleOf(k)' /\ LedOf(k)'
  <2>1. CASE run'[k].pc = "next"
    BY <2>1, NothingAtHand
  <2>2. CASE run'[k].pc = "wait" /\ run'[k].id = run[k].id /\ Place(run'[k]) = p /\ run'[k].cmd = run[k].cmd
    <3>1. OwnOf(k)' /\ SoleOf(k)'
      BY <1>5, <2>2 DEF OwnOf, SoleOf
    <3>2. Mode[run[k].cmd] # "persistent"
      BY <1>1, <2>2 DEF Basics, CallsPlaced
    <3>3. LedOf(k)'
      BY <1>1, <1>3, <2>2, <3>2 DEF LedOf, maps
    <3> QED
      BY <3>1, <3>3
  <2> QED
    BY <1>1, <2>1, <2>2 DEF StartsAt, Place, CallStep
<1>10. ASSUME NEW m \in Runs \ {k} PROVE OwnOf(m)' /\ SoleOf(m)' /\ LedOf(m)'
  <2>1. run'[m] = run[m] /\ Place(run'[m]) = Place(run[m]) /\ OwnOf(m) /\ SoleOf(m) /\ LedOf(m)
    BY <1>1 DEF CallStep, Place, DockerInv
  <2>2. OwnOf(m)'
    BY <1>4, <2>1 DEF OwnOf
  <2>3. LedOf(m)'
    BY <1>1, <2>1 DEF LedOf, maps
  <2>4. CASE Place(run[m]) = p /\ run[m].pc # "free" /\ ~run[m].loose
    <3>1. run[k].loose
      BY <1>1, <2>4 DEF DockerInv, OneRun, Place
    <3>2. run[k].id \in stray'
      BY <1>1, <3>1
    <3>3. \A c \in containers' : c.id \in stray' \/ c \in containers
      BY <1>6, <3>2
    <3>4. SoleOf(m)'
      BY <1>1, <2>1, <3>3 DEF SoleOf, Running
    <3> QED
      BY <2>2, <2>3, <3>4
  <2>5. CASE Place(run[m]) # p
    <3>1. \A c \in containers' : c.proc = Place(run[m]) => c \in containers
      BY <1>5, <1>6, <2>5
    <3>2. SoleOf(m)'
      BY <1>1, <2>1, <3>1 DEF SoleOf, Running
    <3> QED
      BY <2>2, <2>3, <3>2
  <2>6. CASE run[m].pc = "free" \/ run[m].loose
    BY <2>1, <2>2, <2>3, <2>6 DEF SoleOf
  <2> QED
    BY <2>4, <2>5, <2>6
<1>11. HandlesOwn'
  BY <1>1, <1>4 DEF DockerInv, HandlesOwn, maps
<1>12. HandlesRight'
  <2>1. ASSUME NEW c \in containers', NEW d \in containers', c.state = "running",
               c.proc[1] \notin left, d.id = handle[c.proc]
        PROVE  d = c \/ c.id \in stray' \/ d.id \in stray'
    <3>1. /\ \A x, y \in containers' : x.id = y.id => x = y
          /\ c.proc \in Procs /\ d.id # 0 /\ Running(c)
      BY <1>1, <2>1 DEF Basics, Fresh, DockerTypes, Container, Ids, Running
    <3>2. d.proc = c.proc
      BY <1>11, <1>1, <2>1, <3>1 DEF HandlesOwn, maps
    <3>3. CASE c.id = run[k].id
      <4>1. c.proc = p /\ run[k].cmd \notin left
        BY <1>5, <2>1, <3>3 DEF Place
      <4>2. handle[p] = run[k].id \/ handle[p] = 0
        BY <1>1, <1>3, <4>1 DEF LedOf
      <4> QED
        BY <2>1, <3>1, <3>3, <4>1, <4>2
    <3>4. CASE d.id = run[k].id
      BY <1>5, <1>7, <3>1, <3>2, <3>4
    <3>5. CASE c.id # run[k].id /\ d.id # run[k].id
      BY <1>1, <1>6, <2>1, <3>5 DEF DockerInv, HandlesRight
    <3> QED
      BY <3>3, <3>4, <3>5
  <2> QED
    BY <1>1, <2>1 DEF HandlesRight, maps
<1>13. OneRun' /\ WatchersPersist'
  BY <1>1, OneRunStep, WatchersGrow DEF DockerInv
<1> QED
  BY <1>1, <1>8, <1>9, <1>10, <1>11, <1>12, <1>13 DEF DockerInv

LEMMA BeginInv ==
    ASSUME DockerInv, NEW k \in Runs, NEW c \in Commands, BeginRun(k, c)
    PROVE  DockerInv'
<1>1. /\ Basics' /\ UNCHANGED <<containers, maps, watchers, past>>
      /\ \A m \in Runs \ {k} : run'[m] = run[m]
      /\ run'[k].pc = "next" /\ run'[k].cmd = c /\ ~run'[k].loose
      /\ \A m \in Runs : run[m].cmd = c => run[m].loose
  BY BeginTypes DEF DockerInv
<1>2. Dwindles
  BY <1>1, SubsetDwindles
<1>3. ASSUME NEW m \in Runs \ {k} PROVE OwnOf(m)' /\ SoleOf(m)' /\ LedOf(m)'
  <2>1. Stays(m)
    BY <1>1 DEF Stays
  <2> QED
    BY <1>1, <1>2, <2>1, CallStaysOwn, LedStays DEF maps, past
<1>4. OwnOf(k)' /\ SoleOf(k)' /\ LedOf(k)'
  BY <1>1, NothingAtHand
<1>5. HandlesOwn' /\ HandlesRight' /\ OneContainer'
  BY <1>1, <1>2, HandlesDwindle, OneContainerDwindles DEF maps, past
<1>6. OneRun'
  BY <1>1 DEF DockerInv, OneRun
<1>7. WatchersPersist'
  BY <1>1 DEF DockerInv, WatchersPersist
<1> QED
  BY <1>1, <1>3, <1>4, <1>5, <1>6, <1>7 DEF DockerInv

LEMMA StopInv ==
    ASSUME DockerInv, StopAll \/ \E c \in Commands : StopOne(c)
    PROVE  DockerInv'
<1>1. /\ Basics' /\ containers' \subseteq containers /\ UNCHANGED <<watchers, created, stray>>
      /\ \A p \in Procs : handle'[p] \in {0, handle[p]}
  BY StopTypes DEF DockerInv
<1>2. PICK cmds \in SUBSET Commands :
         /\ Left(cmds)
         /\ \A p \in Procs : p[1] \notin cmds =>
               \/ handle'[p] = handle[p] /\ stdin'[p] = stdin[p]
               \/ \E c \in containers : c.id = handle[p] /\ c.proc[1] # p[1]
  BY StopTypes DEF DockerInv
<1>3. Dwindles
  BY <1>1, SubsetDwindles
<1>4. ASSUME NEW m \in Runs PROVE OwnOf(m)' /\ SoleOf(m)' /\ LedOf(m)'
  <2>1. Stays(m)
    BY <1>2 DEF Left, Stays
  <2>2. run[m].pc \in {"start", "wait"} => Place(run[m]) \in Procs /\ Place(run[m])[1] = run[m].cmd
    BY PlaceType DEF DockerInv, Place
  <2>3. CASE run[m].pc \in {"start", "wait"} /\ run[m].cmd \notin cmds
    <3>1. \A c \in containers : c.id = handle[Place(run[m])] => c.proc[1] = Place(run[m])[1]
      BY <2>2, <2>3 DEF DockerInv, HandlesOwn
    <3>2. /\ handle'[Place(run[m])] = handle[Place(run[m])]
          /\ stdin'[Place(run[m])] = stdin[Place(run[m])]
      BY <1>2, <2>2, <2>3, <3>1
    <3> QED
      BY <1>1, <1>2, <1>3, <2>1, <3>2, CallStaysOwn, LedStays DEF Left
  <2>4. CASE run[m].pc \notin {"start", "wait"} \/ run[m].cmd \in left'
    BY <1>1, <1>2, <1>3, <2>1, <2>4, CallStaysOwn, LedStays DEF Left
  <2> QED
    BY <1>2, <2>3, <2>4 DEF Left
<1>5. HandlesOwn' /\ HandlesRight' /\ OneContainer'
  BY <1>1, <1>2, <1>3, HandlesDwindle, OneContainerDwindles DEF Left
<1>6. OneRun'
  <2>1. \A m \in Runs : /\ run'[m].pc = run[m].pc /\ run'[m].cmd = run[m].cmd
                        /\ run[m].loose => run'[m].loose
    BY <1>2 DEF Left
  <2>2. \A k, m \in Runs :
           run[k].pc # "free" /\ run[m].pc # "free" /\ run[k].cmd = run[m].cmd =>
              k = m \/ run[k].loose \/ run[m].loose
    BY DEF DockerInv, OneRun
  <2> QED
    BY <2>1, <2>2 DEF OneRun
<1>7. WatchersPersist'
  BY <1>1 DEF DockerInv, WatchersPersist
<1> QED
  BY <1>1, <1>4, <1>5, <1>6, <1>7 DEF DockerInv

LEMMA RestartInv ==
    ASSUME DockerInv, Restart
    PROVE  DockerInv'
<1>1. /\ Basics' /\ UNCHANGED <<containers, created, stray>> /\ watchers' = {} /\ left' = {}
      /\ \A k \in Runs : run'[k] = Free
      /\ \A p \in Procs : handle'[p] = 0
  BY RestartTypes DEF DockerInv
<1>2. Dwindles
  BY <1>1, SubsetDwindles
<1>3. \A k \in Runs : run'[k].pc = "free"
  BY <1>1 DEF Free
<1>4. \A k \in Runs : OwnOf(k)' /\ SoleOf(k)' /\ LedOf(k)'
  BY <1>3, NothingAtHand
<1>5. HandlesOwn' /\ HandlesRight' /\ OneContainer'
  BY <1>1, <1>2, HandlesDwindle, OneContainerDwindles
<1>6. OneRun' /\ WatchersPersist'
  BY <1>1, <1>3 DEF OneRun, WatchersPersist
<1> QED
  BY <1>1, <1>4, <1>5, <1>6 DEF DockerInv

\* A goroutine clears entries of a persistent procedure, which no call waits for.
LEMMA WatcherInv ==
    ASSUME DockerInv, NEW w \in watchers, WatcherEnds(w[1], w[2])
    PROVE  DockerInv'
<1>1. /\ Basics' /\ containers' \subseteq containers /\ UNCHANGED <<run, past>>
      /\ watchers' \subseteq watchers
      /\ \A p \in Procs : handle'[p] \in {0, handle[p]}
      /\ \A p \in Procs : p # w[1] => handle'[p] = handle[p] /\ stdin'[p] = stdin[p]
  BY WatcherTypes DEF DockerInv
<1>2. UNCHANGED <<stray, left>>
  BY <1>1 DEF past
<1>3. Dwindles
  BY <1>1, SubsetDwindles
<1>4. Mode[w[1][1]] = "persistent" /\ w[1] \in Procs /\ handle'[w[1]] = 0
  BY DEF DockerInv, WatchersPersist, Basics, DockerTypes, WatcherEnds, Clear
<1>5. ASSUME NEW m \in Runs PROVE OwnOf(m)' /\ SoleOf(m)' /\ LedOf(m)'
  <2>1. Stays(m) /\ run'[m] = run[m] /\ Place(run'[m]) = Place(run[m])
    BY <1>1 DEF Stays
  <2>2. OwnOf(m)' /\ SoleOf(m)'
    BY <1>2, <1>3, <2>1, CallStaysOwn
  <2>3. CASE run[m].pc \in {"start", "wait"} /\ Place(run[m]) = w[1]
    <3>1. Mode[run[m].cmd] = "persistent"
      BY <1>4, <2>3 DEF Place
    <3>2. run[m].pc = "start"
      BY <2>3, <3>1 DEF DockerInv, Basics, CallsPlaced
    <3> QED
      BY <1>4, <2>1, <2>2, <2>3, <3>1, <3>2 DEF LedOf
  <2>4. CASE run[m].pc \in {"start", "wait"} /\ Place(run[m]) # w[1]
    <3>1. Place(run[m]) \in Procs
      BY <2>4, PlaceType DEF DockerInv
    <3> QED
      BY <1>1, <1>2, <2>1, <2>2, <2>4, <3>1, LedStays
  <2>5. CASE run[m].pc \notin {"start", "wait"}
    BY <2>1, <2>2, <2>5 DEF LedOf
  <2> QED
    BY <2>3, <2>4, <2>5
<1>6. HandlesOwn' /\ HandlesRight' /\ OneContainer'
  BY <1>1, <1>2, <1>3, HandlesDwindle, OneContainerDwindles
<1>7. OneRun' /\ WatchersPersist'
  BY <1>1 DEF DockerInv, OneRun, WatchersPersist
<1> QED
  BY <1>1, <1>5, <1>6, <1>7 DEF DockerInv

LEMMA ExitInv ==
    ASSUME DockerInv, NEW c \in containers, NEW state \in {"exited0", "exited1"}, ContainerExits(c, state)
    PROVE  DockerInv'
<1>1. Basics' /\ UNCHANGED <<maps, run, watchers, past>> /\ UNCHANGED <<handle, stdin, stray, left>>
  BY ExitTypes DEF DockerInv, maps, past
<1>2. Dwindles
  BY ExitTypes DEF DockerInv, Dwindles
<1>3. ASSUME NEW m \in Runs PROVE OwnOf(m)' /\ SoleOf(m)' /\ LedOf(m)'
  <2>1. Stays(m)
    BY <1>1 DEF Stays
  <2> QED
    BY <1>1, <1>2, <2>1, CallStaysOwn, LedStays
<1>4. HandlesOwn' /\ HandlesRight' /\ OneContainer'
  BY <1>1, <1>2, HandlesDwindle, OneContainerDwindles
<1>5. OneRun' /\ WatchersPersist'
  BY <1>1 DEF DockerInv, OneRun, WatchersPersist
<1> QED
  BY <1>1, <1>3, <1>4, <1>5 DEF DockerInv

LEMMA DockerInvInit ==
    ASSUME DockerInit
    PROVE  DockerInv
<1>1. /\ containers = {} /\ handle = [p \in Procs |-> 0] /\ stdin = [p \in Procs |-> 0]
      /\ run = [k \in Runs |-> Free] /\ watchers = {} /\ created = 0 /\ stray = {} /\ left = {}
  BY DEF DockerInit
<1>2. DockerTypes
  BY <1>1, FreeType, DockerAssumption DEF DockerTypes
<1>3. \A k \in Runs : run[k].pc = "free" /\ ~run[k].loose /\ run[k].id = 0 /\ run[k].next = 1
  BY <1>1 DEF Free
<1>4. CallsPlaced /\ Fresh
  BY <1>1, <1>3 DEF CallsPlaced, Fresh
<1>5. \A k \in Runs : OwnOf(k) /\ SoleOf(k) /\ LedOf(k)
  BY <1>3 DEF OwnOf, SoleOf, LedOf
<1>6. OneRun /\ WatchersPersist /\ HandlesOwn /\ HandlesRight /\ OneContainer
  BY <1>1, <1>3 DEF OneRun, WatchersPersist, HandlesOwn, HandlesRight, OneContainer
<1> QED
  BY <1>2, <1>4, <1>5, <1>6 DEF DockerInv, Basics

LEMMA DockerUnchanged ==
    ASSUME DockerInv, UNCHANGED dockerVars
    PROVE  DockerInv'
<1>1. UNCHANGED <<containers, handle, stdin, run, watchers, created, stray, left>>
  BY DEF dockerVars, maps, past
<1>2. Basics'
  BY <1>1 DEF DockerInv, Basics, DockerTypes, CallsPlaced, Fresh
<1>3. \A k \in Runs : OwnOf(k)' /\ SoleOf(k)' /\ LedOf(k)'
  BY <1>1 DEF DockerInv, OwnOf, SoleOf, LedOf, Running
<1>4. OneRun' /\ WatchersPersist' /\ HandlesOwn' /\ HandlesRight' /\ OneContainer'
  BY <1>1 DEF DockerInv, OneRun, WatchersPersist, HandlesOwn, HandlesRight, OneContainer, Running
<1> QED
  BY <1>2, <1>3, <1>4 DEF DockerInv

LEMMA RunStepInv ==
    ASSUME DockerInv, NEW k \in Runs, RunStep(k)
    PROVE  DockerInv'
<1>1. CASE \E c \in Commands : BeginRun(k, c)
  BY <1>1, BeginInv
<1>2. CASE \/ RunFinished(k) \/ RunNoImage(k) \/ AttachFails(k) \/ SetupFails(k) \/ StartFails(k)
           \/ \E state \in {"exited0", "exited1", "error"} : WaitEnds(k, state)
  BY <1>2, LeavesInv
<1>3. CASE SignalProcedure(k)
  BY <1>3, SignalInv
<1>4. CASE ListContainers(k)
  BY <1>4, ListInv
<1>5. CASE \E i \in run[k].todo : PruneListed(k, i)
  BY <1>5, PruneInv
<1>6. CASE CreateContainer(k)
  BY <1>6, CreateInv
<1>7. CASE Attach(k)
  BY <1>7, AttachInv
<1>8. CASE StartContainer(k)
  BY <1>8, StartInv
<1> QED
  BY <1>1, <1>2, <1>3, <1>4, <1>5, <1>6, <1>7, <1>8 DEF RunStep

LEMMA DockerInvStep ==
    ASSUME DockerInv, [DockerNext]_dockerVars
    PROVE  DockerInv'
<1>1. CASE \E k \in Runs : RunStep(k)
  BY <1>1, RunStepInv
<1>2. CASE \E w \in watchers : WatcherEnds(w[1], w[2])
  BY <1>2, WatcherInv
<1>3. CASE StopAll \/ \E c \in Commands : StopOne(c)
  BY <1>3, StopInv
<1>4. CASE Restart
  BY <1>4, RestartInv
<1>5. CASE \E c \in containers, state \in {"exited0", "exited1"} : ContainerExits(c, state)
  BY <1>5, ExitInv
<1>6. CASE UNCHANGED dockerVars
  BY <1>6, DockerUnchanged
<1> QED
  BY <1>1, <1>2, <1>3, <1>4, <1>5, <1>6 DEF DockerNext

\* What the run checks of a state follows from the invariant.
LEMMA DockerInvMeans ==
    ASSUME DockerInv
    PROVE  DockerTypeOK /\ OneContainer /\ InputReaches
<1>1. DockerTypeOK
  <2>1. ASSUME NEW k \in Runs
        PROVE  /\ run[k].pc \in {"free", "next", "prune", "attach", "start", "wait"}
               /\ run[k].next \in Ids \cup {MaxContainers + 1}
               /\ run[k].id \in Ids \cup {0} /\ run[k].todo \subseteq Ids
    <3>1. /\ run[k].next \in Nat /\ 1 <= run[k].next /\ run[k].next <= created + 1
          /\ created \in 0..MaxContainers
      BY DEF DockerInv, Basics, DockerTypes, Fresh, CallState
    <3>2. run[k].next \in Ids \cup {MaxContainers + 1}
      BY <3>1, DockerAssumption DEF Ids
    <3> QED
      BY <3>2 DEF DockerInv, Basics, DockerTypes, CallState
  <2> QED
    BY <2>1 DEF DockerTypeOK, DockerInv, Basics, DockerTypes
<1>2. InputReaches
  <2>1. \A k \in Runs : LedOf(k) /\ Doing(k) = Place(run[k])
    BY DEF DockerInv, Doing, Place
  <2> QED
    BY <2>1 DEF InputReaches, LedOf
<1> QED
  BY <1>1, <1>2 DEF DockerInv

\* A signal that the call goes past has ended what its target's entry led to.
LEMMA SignalPasses ==
    ASSUME DockerInv, NEW k \in Runs, SignalProcedure(k), run'[k].idx = run[k].idx + 1,
           NEW c \in containers', c.proc = Target[Doing(k)], c.state = "running"
    PROVE  c.proc[1] \in left \/ (\E d \in containers : d.proc = c.proc /\ d.id \in stray)
<1> DEFINE t == Target[Doing(k)]
<1>1. c \in containers /\ c.id # handle[t]
  BY SignalTypes DEF DockerInv
<1>2. run[k].idx \in Nat /\ run[k].idx >= 1
  BY DEF SignalProcedure, RunAt, DockerInv, Basics, DockerTypes, CallsPlaced, CallState
<1>3. SignalTargets(t) # {}
  <2>1. ~ReturnRun(k)
    BY <1>2, ReturnStep DEF DockerInv, Basics, Free
  <2> QED
    BY <2>1 DEF SignalProcedure
<1>4. PICK d \in containers : d.id = handle[t]
  BY <1>3 DEF SignalTargets, Object
<1>5. c.proc \in Procs
  BY <1>1 DEF DockerInv, Basics, DockerTypes, Container
<1>6. d.proc = c.proc
  BY <1>4, <1>5 DEF DockerInv, HandlesOwn
<1>7. c.proc[1] \in left \/ d = c \/ c.id \in stray \/ d.id \in stray
  BY <1>1, <1>4 DEF DockerInv, HandlesRight
<1> QED
  BY <1>1, <1>4, <1>6, <1>7

LEMMA DockerPass ==
    ASSUME DockerInv, DockerNext, NEW k \in Runs, run[k].pc \in {"next", "wait"},
           run'[k].idx = run[k].idx + 1
    PROVE  IF Kind[Doing(k)] = "signal"
           THEN \A c \in containers' : c.proc = Target[Doing(k)] /\ c.state = "running" =>
                   c.proc[1] \in left \/ (\E d \in containers : d.proc = c.proc /\ d.id \in stray)
           ELSE \/ \E c \in Object(run[k].id) :
                      c.state = "exited0" \/ (Failed(c) /\ Doing(k) \in Ignored)
                \/ Persistent(k)
<1>1. /\ Basics /\ DockerTypes /\ run[k].idx \in Nat /\ run[k].idx >= 1
  BY DEF DockerInv, Basics, DockerTypes, CallsPlaced, CallState
\* Steps that leave the call where it is, or end it.
<1>2. ASSUME run'[k].idx \in {0, run[k].idx} PROVE FALSE
  BY <1>1, <1>2
<1>3. ~ReturnRun(k)
  BY <1>1, <1>2, ReturnStep DEF Free
<1>4. ASSUME NEW m \in Runs, RunStep(m)
      PROVE  m = k /\ (SignalProcedure(k) \/ \E state \in {"exited0", "exited1", "error"} : WaitEnds(k, state))
  <2>1. CASE \E c \in Commands : BeginRun(m, c)
    <3>1. m # k
      BY <2>1 DEF BeginRun
    <3> QED
      BY <1>1, <1>2, <2>1, <3>1, BeginTypes
  <2>2. CallStep(m) \/ \E c \in Commands : BeginRun(m, c)
    BY <1>1, <1>4, LeavesTypes, SignalTypes, ListTypes, PruneTypes, CreateTypes, AttachTypes,
       StartTypes DEF RunStep
  <2>3. CASE CallStep(m)
    <3>1. m = k
      BY <1>2, <2>3 DEF CallStep
    <3>2. ~ListContainers(k)
      <4>1. ASSUME ListContainers(k) PROVE Place(run'[k]) = Place(run[k])
        BY <1>1, <4>1, ListTypes, AtProcedureType DEF ListContainers
      <4> QED
        BY <1>2, <4>1 DEF Place
    <3>3. /\ \A i \in run[k].todo : ~PruneListed(k, i)
          /\ ~CreateContainer(k) /\ ~Attach(k) /\ ~StartContainer(k)
      BY DEF PruneListed, CreateContainer, Attach, StartContainer
    <3>4. ~RunFinished(k) /\ ~RunNoImage(k) /\ ~SetupFails(k) /\ ~AttachFails(k) /\ ~StartFails(k)
      BY <1>3 DEF RunFinished, RunNoImage, SetupFails, AttachFails, StartFails
    <3>5. \A c \in Commands : ~BeginRun(k, c)
      BY DEF BeginRun
    <3> QED
      BY <1>4, <3>1, <3>2, <3>3, <3>4, <3>5 DEF RunStep
  <2> QED
    BY <2>1, <2>2, <2>3
<1>5. ~StopAll /\ \A c \in Commands : ~StopOne(c)
  <2>1. ASSUME StopAll \/ \E c \in Commands : StopOne(c) PROVE FALSE
    <3>1. PICK cmds \in SUBSET Commands : Left(cmds)
      BY <1>1, <2>1, StopTypes
    <3> QED
      BY <1>2, <3>1 DEF Left
  <2> QED
    BY <2>1
<1>6. ~Restart
  BY <1>1, <1>2, RestartTypes DEF Free
<1>7. \A w \in watchers : ~WatcherEnds(w[1], w[2])
  BY <1>2 DEF WatcherEnds
<1>8. \A c \in containers, state \in {"exited0", "exited1"} : ~ContainerExits(c, state)
  BY <1>2 DEF ContainerExits
<1>9. SignalProcedure(k) \/ \E state \in {"exited0", "exited1", "error"} : WaitEnds(k, state)
  BY <1>4, <1>5, <1>6, <1>7, <1>8 DEF DockerNext
<1>10. CASE SignalProcedure(k)
  BY <1>1, <1>10, SignalPasses, AtProcedureType DEF SignalProcedure
<1>11. ASSUME NEW state \in {"exited0", "exited1", "error"}, WaitEnds(k, state)
       PROVE  /\ Kind[Doing(k)] = "image"
              /\ \E c \in Object(run[k].id) :
                    c.state = "exited0" \/ (Failed(c) /\ Doing(k) \in Ignored)
  <2>1. run[k].pc = "wait" /\ state \in ExitSeen(k)
        /\ (state = "exited0" \/ (state = "exited1" /\ Doing(k) \in Ignored))
    BY <1>3, <1>11 DEF WaitEnds
  <2>2. \E c \in Object(run[k].id) : c.state = state
    BY <2>1 DEF ExitSeen
  <2>3. Kind[Doing(k)] = "image"
    BY <1>1, <2>1 DEF Basics, CallsPlaced, Place, Doing
  <2> QED
    BY <2>1, <2>2, <2>3 DEF Failed
<1> QED
  BY <1>9, <1>10, <1>11
-----------------------------------------------------------------------------
(* Kubernetes: the inductive invariant                                     *)

JobCall ==
    [pc : {"idle", "resume", "supersede", "next", "list", "clean", "ready", "poll",
           "finish"},
     cmd : Commands \cup {"none"}, idx : Nat, todo : SUBSET Names, next : Nat,
     reuse : Job \cup {NoProc}, name : Names \cup {NoProc}, uid : Nat, seen : SUBSET Nat,
     loose : BOOLEAN]

KubeTypes ==
    /\ jobs \subseteq Job
    /\ sets \in [Procs -> {"none", "starting", "ready"}]
    /\ selected \in [Commands -> Procs \cup {NoProc}]
    /\ exits \subseteq Names
    /\ call \in [Calls -> JobCall]
    /\ made \in 0..MaxJobs /\ ran \subseteq Names \X (1..MaxJobs) /\ late \subseteq 1..MaxJobs
    /\ strays \subseteq Commands

\* A call at work knows its command; one that has looked at its procedure
\* knows that it is one, and what it polls has a name.
JobCallPlaced(k) ==
    /\ call[k].pc # "idle" => call[k].cmd \in Commands /\ call[k].idx >= 1
    /\ call[k].pc \in {"list", "clean", "ready", "poll", "finish"} =>
          call[k].idx <= Length[call[k].cmd]
    /\ call[k].pc \in {"poll", "finish"} => call[k].name \in Names
    /\ call[k].loose => call[k].cmd \in strays

\* Uids and attempts are no higher than the jobs made so far, and neither a
\* uid nor a name is there twice.
JobsFresh ==
    /\ \A j \in jobs : j.uid <= made /\ j.attempt <= made
    /\ \A i, j \in jobs : i.uid = j.uid \/ NameOf(i) = NameOf(j) => i = j
    /\ \A k \in Calls : /\ call[k].uid <= made /\ \A u \in call[k].seen : u <= made
                        /\ 1 <= call[k].next /\ call[k].next <= made + 1
                        /\ call[k].reuse # NoProc => call[k].reuse.uid <= made

KubeBasics == KubeTypes /\ (\A k \in Calls : JobCallPlaced(k)) /\ JobsFresh

\* The job of a call, or the one it will use again, keeps its name.
KeepsName(k) ==
    /\ call[k].pc \in {"poll", "finish"} =>
          \A j \in jobs : j.uid = call[k].uid => NameOf(j) = call[k].name
    /\ call[k].reuse # NoProc =>
          \A j \in jobs : j.uid = call[k].reuse.uid => NameOf(j) = NameOf(call[k].reuse)

\* A call that is about to create a job has no other to wait for, apart from
\* those of calls that stops left behind.
SoleJob(k) ==
    call[k].pc = "clean" /\ call[k].reuse = NoProc /\ ~call[k].loose =>
        \A j \in jobs : j.proc = Place(call[k]) /\ Unfinished(j) => j.uid \in late

\* A call c still deals with job j: it is about to delete it, or it is at its
\* procedure and will use it again, or polls it.
Awaits(c, j) ==
    \/ c.pc = "supersede" /\ NameOf(j) \in c.todo
    \/ /\ j.proc = Place(c) /\ c.pc # "finish"
       /\ c.pc = "clean" => c.reuse # NoProc /\ j.uid = c.reuse.uid
       /\ c.pc = "poll" => NameOf(j) = c.name

\* The jobs that were active at the start are over or still dealt with.
AloneOf(k) ==
    late = {} =>
        \A j \in jobs : Unfinished(j) /\ j.uid \in call[k].seen => Awaits(call[k], j)

\* A call makes jobs for procedures with an image only, and StatefulSets for
\* persistent ones.
ImageOf(k) ==
    /\ call[k].pc \in {"list", "clean"} =>
          Kind[Place(call[k])] = "image" /\ Mode[call[k].cmd] # "persistent"
    /\ call[k].pc = "ready" => Mode[call[k].cmd] = "persistent"

JobsRun ==
    \A j \in jobs : Kind[j.proc] = "image" /\ Mode[j.proc[1]] # "persistent"

ServedOf(k) ==
    call[k].pc \in {"list", "clean", "poll"} /\ call[k].cmd \notin strays =>
        selected[call[k].cmd] = Place(call[k])

\* What a call takes for done has run, or its job is gone and another of the
\* name has run.
RanOf(k) ==
    call[k].pc = "finish" =>
        \/ <<call[k].name, call[k].uid>> \in ran
        \/ /\ \E u \in 1..MaxJobs : <<call[k].name, u>> \in ran
           /\ \A j \in jobs : j.uid # call[k].uid

CallKnows(k) ==
    KeepsName(k) /\ SoleJob(k) /\ AloneOf(k) /\ ImageOf(k) /\ ServedOf(k) /\ RanOf(k)

OneCall ==
    \A k, m \in Calls :
        call[k].pc # "idle" /\ call[m].pc # "idle" /\ call[k].cmd = call[m].cmd =>
            k = m \/ call[k].loose \/ call[m].loose

\* What succeeded, and what the cache remembers, has run.
RanRight ==
    /\ \A j \in jobs : j.status = "succeeded" => <<NameOf(j), j.uid>> \in ran
    /\ \A n \in exits : \E u \in 1..MaxJobs : <<n, u>> \in ran

KubeInv ==
    /\ KubeBasics
    /\ \A k \in Calls : CallKnows(k)
    /\ OneCall /\ RanRight /\ OneActiveJob /\ JobsRun

\* The step of a call, as far as the calls are concerned.
JobCallStep(k) ==
    /\ call' \in [Calls -> JobCall]
    /\ \A m \in Calls \ {k} : call'[m] = call[m]
    /\ \/ call'[k].pc = "idle" /\ ~call'[k].loose
       \/ call[k].pc # "idle" /\ call'[k].cmd = call[k].cmd /\ call'[k].loose = call[k].loose

LEMMA IdleType ==
    Idle \in JobCall
BY DEF Idle, JobCall, Names

LEMMA JobCallGoesOn ==
    ASSUME KubeTypes, NEW k \in Calls, NEW r \in JobCall, call' = [call EXCEPT ![k] = r],
           \/ r.pc = "idle" /\ ~r.loose
           \/ call[k].pc # "idle" /\ r.cmd = call[k].cmd /\ r.loose = call[k].loose
    PROVE  JobCallStep(k) /\ call'[k] = r
BY DEF KubeTypes, JobCallStep

LEMMA JobReturnStep ==
    ASSUME KubeTypes, NEW k \in Calls, Return(k)
    PROVE  JobCallStep(k) /\ call'[k] = Idle
BY IdleType DEF Return, KubeTypes, JobCallStep, Idle

LEMMA JobPassStep ==
    ASSUME KubeTypes, NEW k \in Calls, call[k].pc # "idle", NEW uids, PassBut(k, uids)
    PROVE  /\ JobCallStep(k)
           /\ call'[k].pc = "next" /\ call'[k].idx = call[k].idx + 1
           /\ call'[k].seen \subseteq call[k].seen \ uids
           /\ call'[k].next = 1 /\ call'[k].reuse = NoProc /\ call'[k].uid = 0
<1>1. PICK r : r = [Idle EXCEPT !.pc = "next", !.cmd = call[k].cmd, !.idx = call[k].idx + 1,
                                !.seen = (call[k].seen \cap UidsOpen) \ uids,
                                !.loose = call[k].loose]
  OBVIOUS
<1>2. call[k] \in JobCall
  BY DEF KubeTypes
<1>3. /\ call[k].idx + 1 \in Nat /\ call[k].cmd \in Commands \cup {"none"} /\ call[k].loose \in BOOLEAN
      /\ (call[k].seen \cap UidsOpen) \ uids \in SUBSET Nat
  BY <1>2 DEF JobCall
<1>4. /\ r \in JobCall
      /\ r.pc = "next" /\ r.idx = call[k].idx + 1 /\ r.cmd = call[k].cmd
      /\ r.loose = call[k].loose /\ r.seen = (call[k].seen \cap UidsOpen) \ uids
      /\ r.next = 1 /\ r.reuse = NoProc /\ r.uid = 0
  <2>1. /\ r.pc = "next" /\ r.idx = call[k].idx + 1 /\ r.cmd = call[k].cmd
        /\ r.loose = call[k].loose /\ r.seen = (call[k].seen \cap UidsOpen) \ uids
        /\ r.next = 1 /\ r.reuse = NoProc /\ r.uid = 0
    BY <1>1 DEF Idle
  <2>2. r \in JobCall
    BY <1>1, <1>3, IdleType DEF JobCall
  <2> QED
    BY <2>1, <2>2
<1>5. call' = [call EXCEPT ![k] = r]
  BY <1>1 DEF PassBut
<1> QED
  BY <1>4, <1>5, JobCallGoesOn

LEMMA JobGotoStep ==
    ASSUME KubeTypes, NEW k \in Calls, call[k].pc # "idle",
           NEW pc \in {"next", "list", "ready", "finish"}, Goto(k, pc)
    PROVE  /\ JobCallStep(k)
           /\ call'[k].pc = pc /\ call'[k].idx = call[k].idx /\ call'[k].todo = call[k].todo
           /\ call'[k].seen = call[k].seen /\ call'[k].next = call[k].next
           /\ call'[k].reuse = call[k].reuse /\ call'[k].uid = call[k].uid
           /\ call'[k].name = call[k].name /\ call'[k].cmd = call[k].cmd
           /\ call'[k].loose = call[k].loose
<1>1. PICK r : r = [call[k] EXCEPT !.pc = pc]
  OBVIOUS
<1>2. call[k] \in JobCall
  BY DEF KubeTypes
<1>3. /\ r \in JobCall
      /\ r.pc = pc /\ r.idx = call[k].idx /\ r.todo = call[k].todo /\ r.seen = call[k].seen
      /\ r.next = call[k].next /\ r.reuse = call[k].reuse /\ r.uid = call[k].uid
      /\ r.name = call[k].name /\ r.cmd = call[k].cmd /\ r.loose = call[k].loose
  BY <1>1, <1>2 DEF JobCall
<1>4. call' = [call EXCEPT ![k] = r]
  BY <1>1 DEF Goto
<1> QED
  BY <1>3, <1>4, JobCallGoesOn

\* A step of one call that makes no job keeps the basics.
LEMMA JobCallBasics ==
    ASSUME KubeBasics, NEW k \in Calls, JobCallStep(k), jobs' \subseteq jobs,
           sets' \in [Procs -> {"none", "starting", "ready"}],
           selected' \in [Commands -> Procs \cup {NoProc}], exits' \subseteq Names,
           ran' \subseteq Names \X (1..MaxJobs), UNCHANGED <<made, late, strays>>,
           call'[k].pc # "idle" => call'[k].idx >= 1,
           call'[k].pc \in {"list", "clean", "ready", "poll", "finish"} =>
              call'[k].idx <= Length[call'[k].cmd],
           call'[k].pc \in {"poll", "finish"} => call'[k].name \in Names,
           call'[k].uid <= made, \A u \in call'[k].seen : u <= made,
           1 <= call'[k].next, call'[k].next <= made + 1,
           call'[k].reuse # NoProc => call'[k].reuse.uid <= made
    PROVE  KubeBasics'
<1>1. KubeTypes'
  BY DEF KubeBasics, KubeTypes, JobCallStep
<1>2. ASSUME NEW m \in Calls PROVE JobCallPlaced(m)'
  <2>1. CASE m = k
    BY <2>1 DEF KubeBasics, JobCallPlaced, JobCallStep
  <2>2. CASE m # k
    <3>1. call'[m] = call[m] /\ JobCallPlaced(m)
      BY <2>2 DEF JobCallStep, KubeBasics
    <3> QED
      BY <3>1 DEF JobCallPlaced
  <2> QED
    BY <2>1, <2>2
<1>3. JobsFresh'
  <2>1. \A j \in jobs' : j \in jobs
    OBVIOUS
  <2>2. \A m \in Calls : /\ call'[m].uid <= made /\ \A u \in call'[m].seen : u <= made
                         /\ 1 <= call'[m].next /\ call'[m].next <= made + 1
                         /\ call'[m].reuse # NoProc => call'[m].reuse.uid <= made
    BY DEF KubeBasics, JobsFresh, JobCallStep
  <2>3. /\ \A j \in jobs' : j.uid <= made /\ j.attempt <= made
        /\ \A i, j \in jobs' : i.uid = j.uid \/ NameOf(i) = NameOf(j) => i = j
    BY <2>1 DEF KubeBasics, JobsFresh
  <2> QED
    BY <2>2, <2>3 DEF JobsFresh, NameOf
<1> QED
  BY <1>1, <1>2, <1>3 DEF KubeBasics

\* The same for a step of the cluster: jobs keep their names.
LEMMA ClusterBasics ==
    ASSUME KubeBasics, jobs' \subseteq Job, UNCHANGED <<made, late>>,
           sets' \in [Procs -> {"none", "starting", "ready"}],
           selected' \in [Commands -> Procs \cup {NoProc}], exits' \subseteq Names,
           ran' \subseteq Names \X (1..MaxJobs), strays' \subseteq Commands,
           \A i \in jobs' : \E d \in jobs : i.uid = d.uid /\ NameOf(i) = NameOf(d),
           \A i, j \in jobs' : i.uid = j.uid => i = j,
           call' \in [Calls -> JobCall], \A k \in Calls : JobCallPlaced(k)',
           \A k \in Calls : /\ call'[k].uid \in {0, call[k].uid} /\ call'[k].seen \subseteq call[k].seen
                            /\ call'[k].next \in {1, call[k].next}
                            /\ call'[k].reuse \in {NoProc, call[k].reuse}
    PROVE  KubeBasics'
<1>0. made \in Nat /\ made' = made
  BY DEF KubeBasics, KubeTypes
<1>1. KubeTypes'
  BY DEF KubeBasics, KubeTypes
<1>2. \A i \in jobs' : i.uid <= made' /\ i.attempt <= made'
  BY <1>0 DEF KubeBasics, JobsFresh, NameOf
<1>3. \A i, j \in jobs' : NameOf(i) = NameOf(j) => i = j
  BY DEF KubeBasics, JobsFresh
<1>4. \A m \in Calls : /\ call'[m].uid <= made' /\ \A u \in call'[m].seen : u <= made'
                       /\ 1 <= call'[m].next /\ call'[m].next <= made' + 1
                       /\ call'[m].reuse # NoProc => call'[m].reuse.uid <= made'
  BY <1>0 DEF KubeBasics, JobsFresh
<1>5. JobsFresh'
  BY <1>2, <1>3, <1>4 DEF JobsFresh, NameOf
<1> QED
  BY <1>1, <1>5 DEF KubeBasics

\* Jobs end or go, and none is made.
JobsDwindle ==
    \A i \in jobs' : \E d \in jobs :
        /\ i.uid = d.uid /\ NameOf(i) = NameOf(d)
        /\ Unfinished(i) => Unfinished(d)

\* A call stays where it is; a stop may leave it behind.
JobCallStays(m) ==
    /\ call'[m].pc = call[m].pc /\ call'[m].cmd = call[m].cmd /\ call'[m].idx = call[m].idx
    /\ call'[m].todo = call[m].todo /\ call'[m].reuse = call[m].reuse
    /\ call'[m].name = call[m].name /\ call'[m].uid = call[m].uid
    /\ call'[m].seen = call[m].seen
    /\ call[m].loose => call'[m].loose

LEMMA SubsetJobsDwindle ==
    ASSUME jobs' \subseteq jobs
    PROVE  JobsDwindle
BY DEF JobsDwindle, Unfinished

LEMMA OneActiveJobDwindles ==
    ASSUME KubeInv, KubeBasics', JobsDwindle, late \subseteq late'
    PROVE  OneActiveJob'
<1>1. ASSUME NEW i \in jobs', NEW j \in jobs', Unfinished(i), Unfinished(j), i.proc = j.proc
      PROVE  i = j \/ i.uid \in late' \/ j.uid \in late'
  <2>1. PICK a \in jobs : i.uid = a.uid /\ NameOf(i) = NameOf(a) /\ Unfinished(a)
    BY <1>1 DEF JobsDwindle
  <2>2. PICK b \in jobs : j.uid = b.uid /\ NameOf(j) = NameOf(b) /\ Unfinished(b)
    BY <1>1 DEF JobsDwindle
  <2>3. a.proc = b.proc
    BY <1>1, <2>1, <2>2 DEF NameOf
  <2>4. a = b \/ a.uid \in late \/ b.uid \in late
    BY <2>1, <2>2, <2>3 DEF KubeInv, OneActiveJob
  <2> QED
    BY <2>1, <2>2, <2>4 DEF KubeBasics, JobsFresh
<1> QED
  BY <1>1 DEF OneActiveJob, Unfinished

\* What a call knows outlasts every step that only ends or deletes jobs.
LEMMA AloneStays ==
    ASSUME NEW k \in Calls, AloneOf(k), JobsDwindle, late = {}, NEW j \in jobs', Unfinished(j),
           j.uid \in call[k].seen
    PROVE  Awaits(call[k], j)
<1>1. PICK d \in jobs : j.uid = d.uid /\ NameOf(j) = NameOf(d) /\ Unfinished(d)
  BY DEF JobsDwindle
<1>2. d.proc = j.proc
  BY <1>1 DEF NameOf
<1>3. Awaits(call[k], d)
  BY <1>1 DEF AloneOf
<1> QED
  BY <1>1, <1>2, <1>3 DEF Awaits

LEMMA JobsRunStays ==
    ASSUME KubeInv, JobsDwindle
    PROVE  JobsRun'
<1>1. ASSUME NEW j \in jobs' PROVE Kind[j.proc] = "image" /\ Mode[j.proc[1]] # "persistent"
  <2>1. PICK d \in jobs : NameOf(j) = NameOf(d)
    BY <1>1 DEF JobsDwindle
  <2>2. d.proc = j.proc
    BY <2>1 DEF NameOf
  <2> QED
    BY <2>1, <2>2 DEF KubeInv, JobsRun
<1> QED
  BY <1>1 DEF JobsRun

LEMMA NamesStay ==
    ASSUME NEW k \in Calls, KeepsName(k), JobsDwindle
    PROVE  /\ call[k].pc \in {"poll", "finish"} =>
                 \A j \in jobs' : j.uid = call[k].uid => NameOf(j) = call[k].name
           /\ call[k].reuse # NoProc =>
                 \A j \in jobs' : j.uid = call[k].reuse.uid => NameOf(j) = NameOf(call[k].reuse)
BY DEF KeepsName, JobsDwindle

LEMMA SoleStays ==
    ASSUME NEW k \in Calls, SoleJob(k), JobsDwindle, late \subseteq late',
           call[k].pc = "clean", call[k].reuse = NoProc, ~call[k].loose,
           NEW j \in jobs', j.proc = Place(call[k]), Unfinished(j)
    PROVE  j.uid \in late'
<1>1. PICK d \in jobs : j.uid = d.uid /\ NameOf(j) = NameOf(d) /\ Unfinished(d)
  BY DEF JobsDwindle
<1>2. d.proc = j.proc
  BY <1>1 DEF NameOf
<1> QED
  BY <1>1, <1>2 DEF SoleJob

LEMMA KnowsStays ==
    ASSUME KubeInv, JobsDwindle, ran \subseteq ran', late \subseteq late', strays \subseteq strays',
           NEW m \in Calls, JobCallStays(m),
           \/ selected'[call[m].cmd] = selected[call[m].cmd]
           \/ call[m].pc \notin {"list", "clean", "poll"} \/ call[m].cmd \in strays'
    PROVE  CallKnows(m)'
<1>1. KeepsName(m) /\ SoleJob(m) /\ AloneOf(m) /\ ImageOf(m) /\ ServedOf(m) /\ RanOf(m)
  BY DEF KubeInv, CallKnows
<1>2. Place(call'[m]) = Place(call[m])
  BY DEF JobCallStays, Place
<1>3. KeepsName(m)'
  BY <1>1, NamesStay DEF KeepsName, JobCallStays, NameOf
<1>4. SoleJob(m)'
  BY <1>1, <1>2, SoleStays DEF SoleJob, JobCallStays, Unfinished
<1>5. AloneOf(m)'
  <2>1. ASSUME late' = {}, NEW j \in jobs', Unfinished(j), j.uid \in call'[m].seen
        PROVE  Awaits(call'[m], j)
    <3>1. Awaits(call[m], j)
      BY <1>1, <2>1, AloneStays DEF JobCallStays
    <3> QED
      BY <1>2, <3>1 DEF Awaits, JobCallStays
  <2> QED
    BY <2>1 DEF AloneOf, Awaits, NameOf, Unfinished
<1>8. ImageOf(m)'
  BY <1>1, <1>2 DEF ImageOf, JobCallStays
<1>6. ServedOf(m)'
  BY <1>1, <1>2 DEF ServedOf, JobCallStays
<1>7. RanOf(m)'
  <2>1. (\A j \in jobs : j.uid # call[m].uid) => (\A j \in jobs' : j.uid # call[m].uid)
    BY DEF JobsDwindle
  <2> QED
    BY <1>1, <2>1 DEF RanOf, JobCallStays
<1> QED
  BY <1>3, <1>4, <1>5, <1>6, <1>7, <1>8 DEF CallKnows

LEMMA OneCallStep ==
    ASSUME KubeInv, NEW k \in Calls, JobCallStep(k)
    PROVE  OneCall'
<1>1. OneCall
  BY DEF KubeInv
<1>2. \A m \in Calls : call'[m].pc # "idle" =>
          call[m].pc # "idle" /\ call'[m].cmd = call[m].cmd /\ call'[m].loose = call[m].loose
  BY DEF JobCallStep
<1> QED
  BY <1>1, <1>2 DEF OneCall

\* The step of a call that makes no job and moves its own Service only.
LEMMA QuietJobStep ==
    ASSUME KubeInv, KubeBasics', NEW k \in Calls, JobCallStep(k), JobsDwindle,
           ran \subseteq ran', UNCHANGED <<late, strays>>, RanRight', CallKnows(k)',
           \/ UNCHANGED selected
           \/ call[k].pc # "idle" /\ (\A c \in Commands \ {call[k].cmd} : selected'[c] = selected[c])
    PROVE  KubeInv'
<1>1. ASSUME NEW m \in Calls \ {k} PROVE CallKnows(m)'
  <2>1. JobCallStays(m)
    BY DEF JobCallStep, JobCallStays
  <2>2. call[m].pc # "idle" => call[m].cmd \in Commands
    BY DEF KubeInv, KubeBasics, JobCallPlaced
  <2>3. CASE selected'[call[m].cmd] = selected[call[m].cmd] \/ call[m].pc = "idle"
    BY <2>1, <2>3, KnowsStays
  <2>4. CASE call[m].pc # "idle" /\ call[k].pc # "idle" /\ call[m].cmd = call[k].cmd
    <3>1. call[m].cmd \in strays
      BY <2>4 DEF KubeInv, OneCall, KubeBasics, JobCallPlaced
    <3> QED
      BY <2>1, <3>1, KnowsStays
  <2> QED
    BY <2>2, <2>3, <2>4
<1>2. OneCall' /\ OneActiveJob' /\ JobsRun'
  BY OneCallStep, OneActiveJobDwindles, JobsRunStays
<1> QED
  BY <1>1, <1>2 DEF KubeInv

\* A call that returns or goes on to another procedure knows nothing but
\* that it has left no job behind.
LEMMA KnowsNothing ==
    ASSUME NEW k, call'[k].pc \in {"idle", "next", "resume"}, call'[k].reuse = NoProc,
           call'[k].seen = {} \/ AloneOf(k)'
    PROVE  CallKnows(k)'
BY DEF CallKnows, KeepsName, SoleJob, AloneOf, ImageOf, ServedOf, RanOf

\* Of the jobs active at its start, a call leaves none but those in uids.
NoneLeft(k, uids) ==
    late = {} => \A j \in jobs : Unfinished(j) => j.uid \notin call[k].seen \ uids

LEMMA LeavesNone ==
    ASSUME KubeInv, NEW k \in Calls, NEW uids,
           late = {} => \A j \in jobs : Unfinished(j) /\ Awaits(call[k], j) => j.uid \in uids
    PROVE  NoneLeft(k, uids)
BY DEF KubeInv, CallKnows, AloneOf, NoneLeft

LEMMA RanRightStays ==
    ASSUME KubeInv, jobs' \subseteq jobs, ran \subseteq ran', exits' \subseteq exits
    PROVE  RanRight'
BY DEF KubeInv, RanRight, NameOf

LEMMA JobPlaceType ==
    ASSUME KubeBasics, NEW k \in Calls,
           \/ call[k].pc \in {"list", "clean", "ready", "poll", "finish"}
           \/ \E kind : AtProcedure(k, kind)
    PROVE  Current(k) \in Procs /\ Current(k) = Place(call[k]) /\ call[k].cmd \in Commands
<1>1. call[k].cmd \in Commands /\ call[k].idx \in Nat /\ 1 <= call[k].idx /\ call[k].idx <= Length[call[k].cmd]
  BY DEF KubeBasics, KubeTypes, JobCallPlaced, JobCall, AtProcedure
<1> QED
  BY <1>1, ProcedureOf DEF Current, Place

LEMMA JobCallFacts ==
    ASSUME KubeBasics, NEW k \in Calls
    PROVE  /\ call[k] \in JobCall /\ made \in Nat
           /\ call[k].uid <= made /\ 1 <= call[k].next /\ call[k].next <= made + 1
           /\ \A u \in call[k].seen : u <= made
           /\ call[k].reuse # NoProc => call[k].reuse.uid <= made
           /\ call[k].idx \in Nat /\ (call[k].pc # "idle" => call[k].idx >= 1)
BY DEF KubeBasics, KubeTypes, JobsFresh, JobCallPlaced, JobCall

\* The call returns, or goes on with the next procedure.
LEMMA JobCallLeaves ==
    ASSUME KubeInv, NEW k \in Calls, NEW uids,
           Return(k) \/ (call[k].pc # "idle" /\ PassBut(k, uids) /\ NoneLeft(k, uids)),
           jobs' \subseteq jobs, sets' \in [Procs -> {"none", "starting", "ready"}],
           exits' \subseteq Names, RanRight', UNCHANGED <<selected, history>>
    PROVE  KubeInv'
<1>1. /\ JobCallStep(k)
      /\ call'[k].pc \in {"idle", "next"} /\ call'[k].reuse = NoProc
      /\ \/ call'[k].seen = {}
         \/ call'[k].seen \subseteq call[k].seen \ uids /\ NoneLeft(k, uids)
      /\ call'[k].next = 1 /\ call'[k].uid = 0
      /\ call'[k].pc = "next" => call[k].pc # "idle" /\ call'[k].idx = call[k].idx + 1
  <2>1. CASE Return(k)
    BY <2>1, JobReturnStep DEF KubeInv, KubeBasics, Idle
  <2>2. CASE call[k].pc # "idle" /\ PassBut(k, uids) /\ NoneLeft(k, uids)
    BY <2>2, JobPassStep DEF KubeInv, KubeBasics
  <2> QED
    BY <2>1, <2>2
<1>2. call'[k].pc # "idle" => call'[k].idx >= 1
  BY <1>1, JobCallFacts DEF KubeInv
<1>3. /\ UNCHANGED <<made, ran, late, strays, selected>>
      /\ made \in Nat /\ selected' \in [Commands -> Procs \cup {NoProc}]
      /\ ran' \subseteq Names \X (1..MaxJobs)
  BY DEF history, KubeInv, KubeBasics, KubeTypes
<1>4. /\ call'[k].uid <= made /\ 1 <= call'[k].next /\ call'[k].next <= made + 1
      /\ \A u \in call'[k].seen : u <= made
  BY <1>1, <1>3, JobCallFacts DEF KubeInv
<1>5. KubeBasics'
  BY <1>1, <1>2, <1>3, <1>4, JobCallBasics DEF KubeInv
<1>7. call'[k].seen = {} \/ AloneOf(k)'
  <2>1. ASSUME call'[k].seen \subseteq call[k].seen \ uids, NoneLeft(k, uids), late' = {}, NEW j \in jobs',
               Unfinished(j), j.uid \in call'[k].seen
        PROVE  FALSE
    BY <1>3, <2>1 DEF NoneLeft
  <2> QED
    BY <1>1, <2>1 DEF AloneOf, Unfinished
<1>6. JobsDwindle /\ CallKnows(k)'
  BY <1>1, <1>7, SubsetJobsDwindle, KnowsNothing
<1> QED
  BY <1>1, <1>3, <1>5, <1>6, QuietJobStep

LEMMA JobReturnsInv ==
    ASSUME KubeInv, NEW k \in Calls,
           CallFails(k) \/ Finished(k) \/ NoImage(k) \/ StatefulSetReady(k) \/ PollFailed(k)
    PROVE  KubeInv'
<1>1. UNCHANGED <<clusterVars, exits, history>>
  BY DEF CallFails, Finished, NoImage, StatefulSetReady, PollFailed
<1>2. UNCHANGED <<jobs, sets, selected, exits, history>> /\ ran' = ran
  BY <1>1 DEF clusterVars, history
<1>3. RanRight'
  BY <1>2, RanRightStays
<1>4. \E uids : Return(k) \/ (call[k].pc # "idle" /\ PassBut(k, uids) /\ NoneLeft(k, uids))
  <2>1. CASE CallFails(k) \/ Finished(k) \/ NoImage(k)
    BY <2>1 DEF CallFails, Finished, NoImage
  <2>2. CASE StatefulSetReady(k)
    <3>1. call[k].pc = "ready" /\ PassBut(k, {})
      BY <2>2 DEF StatefulSetReady, Pass
    <3>2. Mode[call[k].cmd] = "persistent"
      BY <3>1 DEF KubeInv, CallKnows, ImageOf
    <3>3. \A j \in jobs : ~Awaits(call[k], j)
      BY <3>1, <3>2 DEF KubeInv, JobsRun, Awaits, Place
    <3> QED
      BY <3>1, <3>3, LeavesNone
  <2>3. CASE PollFailed(k)
    <3>1. call[k].pc = "poll" /\ (Return(k) \/ PassBut(k, Polled(k)))
      BY <2>3 DEF PollFailed
    <3>2. \A j \in jobs : Unfinished(j) /\ Awaits(call[k], j) => j.uid \in Polled(k)
      BY <3>1 DEF Awaits, Polled, Named
    <3> QED
      BY <3>1, <3>2, LeavesNone
  <2> QED
    BY <2>1, <2>2, <2>3
<1> QED
  BY <1>2, <1>3, <1>4, JobCallLeaves DEF KubeInv, KubeBasics, KubeTypes

LEMMA KubeSignalInv ==
    ASSUME KubeInv, NEW k \in Calls, Signal(k)
    PROVE  KubeInv'
<1>1. /\ AtProcedure(k, "signal") /\ call[k].pc = "next" /\ PassBut(k, {}) /\ jobs' \subseteq jobs
      /\ UNCHANGED <<selected, exits, history>> /\ ran' = ran
      /\ sets' = [sets EXCEPT ![Target[Current(k)]] = "none"]
  BY DEF Signal, AtProcedure, history, Pass
<1>2. RanRight'
  BY <1>1, RanRightStays
<1>3. NoneLeft(k, {})
  <2>1. Kind[Place(call[k])] = "signal"
    BY <1>1, JobPlaceType DEF AtProcedure, KubeInv
  <2>2. \A j \in jobs : ~Awaits(call[k], j)
    BY <1>1, <2>1 DEF KubeInv, JobsRun, Awaits
  <2> QED
    BY <2>2, LeavesNone
<1> QED
  BY <1>1, <1>2, <1>3, JobCallLeaves DEF KubeInv, KubeBasics, KubeTypes

\* The exit that is recorded is that of a job that ran.
LEMMA RanRightRecords ==
    ASSUME KubeInv, jobs' \subseteq jobs, ran \subseteq ran', NEW n, exits' \subseteq exits \cup {n},
           \E u \in 1..MaxJobs : <<n, u>> \in ran'
    PROVE  RanRight'
BY DEF KubeInv, RanRight, NameOf

LEMMA DeleteFinishedInv ==
    ASSUME KubeInv, NEW k \in Calls, DeleteFinished(k)
    PROVE  KubeInv'
<1>1. /\ call[k].pc = "finish" /\ PassBut(k, {}) /\ jobs' \subseteq jobs
      /\ UNCHANGED <<sets, selected, history>> /\ ran' = ran
      /\ exits' = exits \cup {call[k].name}
  BY DEF DeleteFinished, history, Pass
<1>2. call[k].name \in Names
  BY <1>1 DEF KubeInv, KubeBasics, JobCallPlaced
<1>3. \E u \in 1..MaxJobs : <<call[k].name, u>> \in ran
  <2>1. RanOf(k)
    BY DEF KubeInv, CallKnows
  <2>2. ran \subseteq Names \X (1..MaxJobs)
    BY DEF KubeInv, KubeBasics, KubeTypes
  <2> QED
    BY <1>1, <2>1, <2>2 DEF RanOf
<1>4. RanRight'
  BY <1>1, <1>3, RanRightRecords
<1>5. NoneLeft(k, {})
  BY <1>1, LeavesNone DEF Awaits
<1> QED
  BY <1>1, <1>2, <1>4, <1>5, JobCallLeaves DEF KubeInv, KubeBasics, KubeTypes

\* A step on the way of a call that deletes jobs at most.
LEMMA JobCallOnTheWay ==
    ASSUME KubeInv, NEW k \in Calls, JobCallStep(k), jobs' \subseteq jobs,
           UNCHANGED <<made, late, strays>>, ran \subseteq ran',
           sets' \in [Procs -> {"none", "starting", "ready"}],
           selected' \in [Commands -> Procs \cup {NoProc}], exits' \subseteq Names,
           ran' \subseteq Names \X (1..MaxJobs),
           call[k].pc # "idle", call'[k].idx >= 1,
           call'[k].pc \in {"list", "clean", "ready", "poll", "finish"} =>
              call'[k].idx <= Length[call'[k].cmd],
           call'[k].pc \in {"poll", "finish"} => call'[k].name \in Names,
           call'[k].uid \in {call[k].uid, IF call[k].reuse = NoProc THEN 0 ELSE call[k].reuse.uid},
           call'[k].next \in {1, call[k].next},
           call'[k].seen = call[k].seen, call'[k].reuse \in {NoProc, call[k].reuse},
           RanRight', CallKnows(k)',
           \/ UNCHANGED selected
           \/ \A c \in Commands \ {call[k].cmd} : selected'[c] = selected[c]
    PROVE  KubeInv'
<1>1. /\ call'[k].uid <= made /\ \A u \in call'[k].seen : u <= made
      /\ 1 <= call'[k].next /\ call'[k].next <= made + 1
      /\ call'[k].reuse # NoProc => call'[k].reuse.uid <= made
  <2>1. call'[k].uid <= made
    BY JobCallFacts DEF KubeInv
  <2> QED
    BY <2>1, JobCallFacts DEF KubeInv
<1>2. KubeBasics'
  BY <1>1, JobCallBasics DEF KubeInv
<1> QED
  BY <1>2, SubsetJobsDwindle, QuietJobStep

\* The parts of what a call knows that do not depend on where it is.
LEMMA KeptOnTheWay ==
    ASSUME KubeInv, NEW k \in Calls, jobs' \subseteq jobs,
           call'[k].reuse \in {NoProc, call[k].reuse}, call'[k].seen = call[k].seen, UNCHANGED late
    PROVE  /\ late' = {} => \A j \in jobs' : Unfinished(j) /\ j.uid \in call'[k].seen => Awaits(call[k], j)
           /\ call'[k].reuse # NoProc =>
                 \A j \in jobs' : j.uid = call'[k].reuse.uid => NameOf(j) = NameOf(call'[k].reuse)
<1>1. AloneOf(k) /\ KeepsName(k)
  BY DEF KubeInv, CallKnows
<1>2. late' = {} => \A j \in jobs' : Unfinished(j) /\ j.uid \in call'[k].seen => Awaits(call[k], j)
  BY <1>1 DEF AloneOf
<1> QED
  BY <1>1, <1>2 DEF KeepsName

LEMMA DeletedInv ==
    ASSUME KubeInv, NEW k \in Calls, AllSuperseded(k)
    PROVE  KubeInv'
<1>1. /\ call[k].todo = {} /\ UNCHANGED <<jobs, sets, selected, exits, history>>
      /\ UNCHANGED <<made, ran, late, strays>>
      /\ call[k].pc = "supersede" /\ Goto(k, "next")
  BY DEF AllSuperseded, clusterVars, history
<1>2. /\ JobCallStep(k)
      /\ call'[k].pc = "next"
      /\ call'[k].idx = call[k].idx /\ call'[k].todo = call[k].todo
      /\ call'[k].seen = call[k].seen /\ call'[k].next = call[k].next
      /\ call'[k].reuse = call[k].reuse /\ call'[k].uid = call[k].uid
      /\ call'[k].name = call[k].name /\ call'[k].cmd = call[k].cmd
      /\ call'[k].loose = call[k].loose
  BY <1>1, JobGotoStep DEF KubeInv, KubeBasics
<1>3. Place(call'[k]) = Place(call[k])
  BY <1>2 DEF Place
<1>4. JobsDwindle /\ RanRight'
  BY <1>1, SubsetJobsDwindle, RanRightStays
<1>5. KeepsName(k) /\ SoleJob(k) /\ AloneOf(k) /\ ImageOf(k) /\ ServedOf(k)
  BY DEF KubeInv, CallKnows
<1>6. CallKnows(k)'
  <2>1. KeepsName(k)'
    BY <1>1, <1>2, <1>5 DEF KeepsName, NameOf
  <2>2. SoleJob(k)'
    BY <1>1, <1>2, <1>3, <1>5 DEF SoleJob, Unfinished
  <2>3. AloneOf(k)'
    <3>1. ASSUME NEW j, Awaits(call[k], j) PROVE Awaits(call'[k], j)
      BY <1>1, <1>2, <1>3, <3>1 DEF Awaits
    <3> QED
      BY <1>1, <1>2, <1>5, <3>1 DEF AloneOf, Awaits, NameOf, Unfinished
  <2>4. ServedOf(k)' /\ RanOf(k)' /\ ImageOf(k)'
    BY <1>1, <1>2, <1>3, <1>5 DEF ServedOf, RanOf, ImageOf
  <2> QED
    BY <2>1, <2>2, <2>3, <2>4 DEF CallKnows
<1>7. call'[k].idx >= 1
  BY <1>1, <1>2 DEF KubeInv, KubeBasics, JobCallPlaced
<1> QED
  BY <1>1, <1>2, <1>4, <1>6, <1>7, JobCallOnTheWay DEF KubeInv, KubeBasics, KubeTypes

LEMMA DeleteListedInv ==
    ASSUME KubeInv, NEW k \in Calls, NEW n \in call[k].todo, DeleteListed(k, n)
    PROVE  KubeInv'
<1>1. PICK r : r = [call[k] EXCEPT !.todo = @ \ {n}]
  OBVIOUS
<1>2. call[k] \in JobCall /\ call[k].pc \in {"supersede", "clean"}
  BY JobCallFacts DEF KubeInv, DeleteListed
<1>3. /\ r \in JobCall
      /\ r.pc = call[k].pc /\ r.idx = call[k].idx /\ r.todo = call[k].todo \ {n}
      /\ r.seen = call[k].seen /\ r.next = call[k].next /\ r.reuse = call[k].reuse
      /\ r.uid = call[k].uid /\ r.cmd = call[k].cmd /\ r.loose = call[k].loose
  BY <1>1, <1>2 DEF JobCall
<1>4. call' = [call EXCEPT ![k] = r]
  BY <1>1 DEF DeleteListed
<1>5. JobCallStep(k) /\ call'[k] = r
  BY <1>2, <1>3, <1>4, JobCallGoesOn DEF KubeInv, KubeBasics
<1>6. /\ jobs' = jobs \ Named(n) /\ jobs' \subseteq jobs /\ UNCHANGED <<sets, selected, exits, history>>
      /\ UNCHANGED <<made, ran, late, strays>>
  BY DEF DeleteListed, history
<1>7. Place(call'[k]) = Place(call[k])
  BY <1>3, <1>5 DEF Place
<1>8. JobsDwindle /\ RanRight'
  BY <1>6, SubsetJobsDwindle, RanRightStays
<1>9. KeepsName(k) /\ SoleJob(k) /\ AloneOf(k) /\ ImageOf(k) /\ ServedOf(k)
  BY DEF KubeInv, CallKnows
<1>10. CallKnows(k)'
  <2>1. KeepsName(k)'
    BY <1>2, <1>3, <1>5, <1>6, <1>9 DEF KeepsName, NameOf
  <2>2. SoleJob(k)'
    BY <1>3, <1>5, <1>6, <1>7, <1>9 DEF SoleJob, Unfinished
  <2>3. AloneOf(k)'
    <3>1. ASSUME late' = {}, NEW j \in jobs', Unfinished(j), j.uid \in call'[k].seen
          PROVE  Awaits(call'[k], j)
      <4>1. NameOf(j) # n
        BY <1>6, <3>1 DEF Named
      <4>2. Awaits(call[k], j)
        BY <1>3, <1>5, <1>6, <1>9, <3>1 DEF AloneOf
      <4> QED
        BY <1>2, <1>3, <1>5, <1>7, <4>1, <4>2 DEF Awaits
    <3> QED
      BY <3>1 DEF AloneOf, Awaits, NameOf, Unfinished
  <2>4. ServedOf(k)' /\ RanOf(k)' /\ ImageOf(k)'
    BY <1>2, <1>3, <1>5, <1>6, <1>7, <1>9 DEF ServedOf, RanOf, ImageOf
  <2> QED
    BY <2>1, <2>2, <2>3, <2>4 DEF CallKnows
<1>11. call[k].idx >= 1 /\ (call[k].pc = "clean" => call[k].idx <= Length[call[k].cmd])
  BY <1>2 DEF KubeInv, KubeBasics, JobCallPlaced
<1> QED
  BY <1>2, <1>3, <1>5, <1>6, <1>8, <1>10, <1>11, JobCallOnTheWay DEF KubeInv, KubeBasics, KubeTypes

LEMMA ReconcileType ==
    ASSUME KubeTypes, NEW p \in Procs, selected' = Reconcile(p)
    PROVE  /\ selected' \in [Commands -> Procs \cup {NoProc}] /\ selected'[p[1]] = p
           /\ \A c \in Commands \ {p[1]} : selected'[c] = selected[c]
BY CommandOfProcedure DEF KubeTypes, Reconcile

\* The Service of the command leads to the procedure the call is about to run.
LEMMA EnsureInv ==
    ASSUME KubeInv, NEW k \in Calls, EnsureServices(k) \/ EnsureStatefulSet(k)
    PROVE  KubeInv'
<1>1. /\ AtProcedure(k, "image") /\ call[k].pc = "next" /\ call[k].idx <= Length[call[k].cmd]
      /\ selected' = Reconcile(Current(k)) /\ UNCHANGED <<jobs, exits, history>>
      /\ UNCHANGED <<made, ran, late, strays>>
      /\ Goto(k, "list") \/ Goto(k, "ready")
      /\ sets' = sets \/ sets' = [sets EXCEPT ![Current(k)] = IF @ = "none" THEN "starting" ELSE @]
  BY DEF EnsureServices, EnsureStatefulSet, AtProcedure, history
<1>2. Current(k) \in Procs /\ Current(k) = Place(call[k]) /\ Current(k)[1] = call[k].cmd
  BY <1>1, JobPlaceType DEF KubeInv, Current
<1>3. /\ selected' \in [Commands -> Procs \cup {NoProc}] /\ selected'[call[k].cmd] = Place(call[k])
      /\ \A c \in Commands \ {call[k].cmd} : selected'[c] = selected[c]
  BY <1>1, <1>2, ReconcileType DEF KubeInv, KubeBasics
<1>4. /\ JobCallStep(k)
      /\ call'[k].pc \in {"list", "ready"}
      /\ call'[k].idx = call[k].idx
      /\ call'[k].seen = call[k].seen /\ call'[k].next = call[k].next
      /\ call'[k].reuse = call[k].reuse /\ call'[k].uid = call[k].uid
      /\ call'[k].cmd = call[k].cmd
  BY <1>1, JobGotoStep DEF KubeInv, KubeBasics
<1>5. Place(call'[k]) = Place(call[k])
  BY <1>4 DEF Place
<1>6. AloneOf(k)' /\ KeepsName(k)'
  <2>1. KeepsName(k)'
    BY <1>1, <1>4, KeptOnTheWay DEF KeepsName
  <2>2. ASSUME NEW j, Awaits(call[k], j) PROVE Awaits(call'[k], j)
    BY <1>1, <1>4, <1>5, <2>2 DEF Awaits
  <2>3. late' = {} => \A j \in jobs' : Unfinished(j) /\ j.uid \in call'[k].seen => Awaits(call'[k], j)
    BY <1>1, <1>4, <2>2, KeptOnTheWay
  <2> QED
    BY <2>1, <2>3 DEF AloneOf, Awaits, NameOf, Unfinished
<1>7. SoleJob(k)' /\ ServedOf(k)' /\ RanOf(k)'
  BY <1>3, <1>4, <1>5 DEF SoleJob, ServedOf, RanOf
<1>11. ImageOf(k)'
  <2>1. Kind[Place(call'[k])] = "image"
    BY <1>1, <1>2, <1>5 DEF AtProcedure
  <2>2. \/ Goto(k, "list") /\ Mode[call[k].cmd] # "persistent"
        \/ Goto(k, "ready") /\ Mode[call[k].cmd] = "persistent"
    BY DEF EnsureServices, EnsureStatefulSet
  <2>3. \/ call'[k].pc = "list" /\ Mode[call[k].cmd] # "persistent"
        \/ call'[k].pc = "ready" /\ Mode[call[k].cmd] = "persistent"
    BY <1>1, <2>2, JobGotoStep DEF KubeInv, KubeBasics
  <2> QED
    BY <1>4, <2>1, <2>3 DEF ImageOf
<1>8. CallKnows(k)' /\ RanRight'
  BY <1>1, <1>6, <1>7, <1>11, RanRightStays DEF CallKnows
<1>9. sets' \in [Procs -> {"none", "starting", "ready"}]
  BY <1>1 DEF KubeInv, KubeBasics, KubeTypes
<1>10. call'[k].idx >= 1
  BY <1>1, <1>4, JobCallFacts DEF KubeInv
<1> QED
  BY <1>1, <1>3, <1>4, <1>8, <1>9, <1>10, JobCallOnTheWay DEF KubeInv, KubeBasics, KubeTypes

LEMMA ReuseInv ==
    ASSUME KubeInv, NEW k \in Calls, Reuse(k)
    PROVE  KubeInv'
<1>1. PICK r : r = [call[k] EXCEPT !.pc = "poll", !.name = NameOf(call[k].reuse),
                       !.uid = call[k].reuse.uid, !.reuse = NoProc, !.next = 1]
  OBVIOUS
<1>2. /\ call[k] \in JobCall /\ call[k].pc = "clean" /\ call[k].reuse # NoProc
      /\ UNCHANGED <<jobs, sets, selected, exits, history>> /\ UNCHANGED <<made, ran, late, strays>>
  BY JobCallFacts DEF KubeInv, Reuse, clusterVars, history
<1>3. call[k].reuse \in Job /\ NameOf(call[k].reuse) \in Names /\ call[k].reuse.uid \in Nat
  BY <1>2 DEF JobCall, Job, NameOf, Names
<1>4. /\ r \in JobCall
      /\ r.pc = "poll" /\ r.name = NameOf(call[k].reuse) /\ r.uid = call[k].reuse.uid
      /\ r.reuse = NoProc /\ r.next = 1 /\ r.idx = call[k].idx /\ r.seen = call[k].seen
      /\ r.cmd = call[k].cmd /\ r.loose = call[k].loose
  BY <1>1, <1>2, <1>3 DEF JobCall
<1>5. call' = [call EXCEPT ![k] = r]
  BY <1>1 DEF Reuse
<1>6. JobCallStep(k) /\ call'[k] = r
  BY <1>2, <1>4, <1>5, JobCallGoesOn DEF KubeInv, KubeBasics
<1>7. Place(call'[k]) = Place(call[k])
  BY <1>4, <1>6 DEF Place
<1>8. KeepsName(k) /\ ServedOf(k)
  BY DEF KubeInv, CallKnows
<1>9. CallKnows(k)'
  <2>1. AloneOf(k)'
    <3>1. ASSUME NEW j \in jobs, Awaits(call[k], j) PROVE Awaits(call'[k], j)
      <4>1. j.proc = Place(call[k]) /\ j.uid = call[k].reuse.uid
        BY <1>2, <3>1 DEF Awaits
      <4>2. NameOf(j) = call'[k].name
        BY <1>2, <1>4, <1>6, <1>8, <4>1 DEF KeepsName
      <4> QED
        BY <1>4, <1>6, <1>7, <4>1, <4>2 DEF Awaits
    <3>2. late' = {} => \A j \in jobs' : Unfinished(j) /\ j.uid \in call'[k].seen => Awaits(call'[k], j)
      BY <1>2, <1>4, <1>6, <3>1, KeptOnTheWay
    <3> QED
      BY <3>2 DEF AloneOf, Awaits, NameOf, Unfinished
  <2>2. KeepsName(k)'
    BY <1>2, <1>4, <1>6, <1>8 DEF KeepsName, NameOf
  <2>3. SoleJob(k)' /\ ServedOf(k)' /\ RanOf(k)' /\ ImageOf(k)'
    BY <1>2, <1>4, <1>6, <1>7, <1>8 DEF SoleJob, ServedOf, RanOf, ImageOf
  <2> QED
    BY <2>1, <2>2, <2>3 DEF CallKnows
<1>10. RanRight'
  BY <1>2, RanRightStays
<1>11. call[k].idx >= 1 /\ call[k].idx <= Length[call[k].cmd]
  BY <1>2 DEF KubeInv, KubeBasics, JobCallPlaced
<1> QED
  BY <1>2, <1>3, <1>4, <1>6, <1>9, <1>10, <1>11, JobCallOnTheWay DEF KubeInv, KubeBasics, KubeTypes

\* A job that has taken the name of the call's job is there instead of it.
LEMMA OtherOfTheName ==
    ASSUME KubeInv, NEW k \in Calls, call[k].pc = "poll", NEW j \in Named(call[k].name),
           j.uid # call[k].uid
    PROVE  \A i \in jobs : i.uid # call[k].uid
<1>1. KeepsName(k) /\ j \in jobs /\ NameOf(j) = call[k].name
  BY DEF KubeInv, CallKnows, Named
<1> QED
  BY <1>1 DEF KeepsName, KubeInv, KubeBasics, JobsFresh

LEMMA ToFinishInv ==
    ASSUME KubeInv, NEW k \in Calls, call[k].pc = "poll", Goto(k, "finish"), jobs' \subseteq jobs,
           UNCHANGED <<sets, selected, made, late, strays>>, exits' \subseteq exits \cup {call[k].name},
           ran \subseteq ran', ran' \subseteq Names \X (1..MaxJobs),
           \A j \in jobs' : NameOf(j) = call[k].name => ~Unfinished(j),
           \/ <<call[k].name, call[k].uid>> \in ran'
           \/ /\ \E u \in 1..MaxJobs : <<call[k].name, u>> \in ran'
              /\ \A j \in jobs' : j.uid # call[k].uid
    PROVE  KubeInv'
<1>1. /\ JobCallStep(k)
      /\ call'[k].pc = "finish" /\ call'[k].idx = call[k].idx
      /\ call'[k].seen = call[k].seen /\ call'[k].next = call[k].next
      /\ call'[k].reuse = call[k].reuse /\ call'[k].uid = call[k].uid
      /\ call'[k].name = call[k].name /\ call'[k].cmd = call[k].cmd
  BY JobGotoStep DEF KubeInv, KubeBasics
<1>2. Place(call'[k]) = Place(call[k])
  BY <1>1 DEF Place
<1>3. call[k].name \in Names /\ call[k].idx >= 1 /\ call[k].idx <= Length[call[k].cmd]
  BY DEF KubeInv, KubeBasics, JobCallPlaced
<1>4. RanRight'
  BY RanRightRecords
<1>5. CallKnows(k)'
  <2>1. call'[k].reuse # NoProc =>
           \A j \in jobs' : j.uid = call'[k].reuse.uid => NameOf(j) = NameOf(call'[k].reuse)
    BY <1>1, KeptOnTheWay
  <2>6. AloneOf(k)'
    <3>1. ASSUME late' = {}, NEW j \in jobs', Unfinished(j), j.uid \in call'[k].seen
          PROVE  FALSE
      <4>1. Awaits(call[k], j)
        BY <1>1, <3>1, KeptOnTheWay
      <4> QED
        BY <3>1, <4>1 DEF Awaits
    <3> QED
      BY <3>1 DEF AloneOf, Unfinished
  <2>2. KeepsName(k)
    BY DEF KubeInv, CallKnows
  <2>3. KeepsName(k)'
    BY <1>1, <2>1, <2>2 DEF KeepsName, NameOf
  <2>4. SoleJob(k)' /\ ServedOf(k)' /\ ImageOf(k)'
    BY <1>1 DEF SoleJob, ServedOf, ImageOf
  <2>5. RanOf(k)'
    BY <1>1 DEF RanOf
  <2> QED
    BY <2>3, <2>4, <2>5, <2>6 DEF CallKnows
<1>6. /\ sets' \in [Procs -> {"none", "starting", "ready"}] /\ exits' \subseteq Names
      /\ selected' \in [Commands -> Procs \cup {NoProc}]
  BY <1>3 DEF KubeInv, KubeBasics, KubeTypes
<1> QED
  BY <1>1, <1>3, <1>4, <1>5, <1>6, JobCallOnTheWay

LEMMA PollMissingInv ==
    ASSUME KubeInv, NEW k \in Calls, PollMissing(k)
    PROVE  KubeInv'
<1>1. /\ call[k].pc = "poll" /\ Named(call[k].name) = {}
      /\ UNCHANGED <<jobs, sets, selected, exits, history>>
      /\ UNCHANGED <<made, ran, late, strays>>
  BY DEF PollMissing, clusterVars, history
<1>2. CASE KnownExit(call[k].name)
  <2>1. Goto(k, "finish") /\ call[k].name \in exits
    BY <1>2 DEF PollMissing, KnownExit
  <2>2. \E u \in 1..MaxJobs : <<call[k].name, u>> \in ran
    BY <2>1 DEF KubeInv, RanRight
  <2>3. \A j \in jobs : j.uid # call[k].uid
    BY <1>1 DEF KubeInv, CallKnows, KeepsName, Named
  <2>4. ran \subseteq Names \X (1..MaxJobs)
    BY DEF KubeInv, KubeBasics, KubeTypes
  <2>5. \A j \in jobs' : NameOf(j) = call[k].name => ~Unfinished(j)
    BY <1>1 DEF Named
  <2> QED
    BY <1>1, <2>1, <2>2, <2>3, <2>4, <2>5, ToFinishInv
<1>3. CASE ~KnownExit(call[k].name)
  <2>1. Return(k) /\ RanRight'
    BY <1>1, <1>3, RanRightStays DEF PollMissing
  <2> QED
    BY <1>1, <2>1, JobCallLeaves DEF KubeInv, KubeBasics, KubeTypes
<1> QED
  BY <1>2, <1>3

LEMMA PollSucceededInv ==
    ASSUME KubeInv, NEW k \in Calls, PollSucceeded(k)
    PROVE  KubeInv'
<1>1. /\ call[k].pc = "poll" /\ Goto(k, "finish") /\ exits' = exits \cup {call[k].name}
      /\ UNCHANGED <<jobs, sets, selected>> /\ UNCHANGED <<made, ran, late, strays>>
  BY DEF PollSucceeded, clusterVars, history
<1>2. PICK j \in Named(call[k].name) : j.status = "succeeded"
  BY DEF PollSucceeded
<1>3. <<call[k].name, j.uid>> \in ran /\ j.uid \in 1..MaxJobs
  BY <1>2 DEF KubeInv, RanRight, Named, KubeBasics, KubeTypes, Job
<1>4. \/ <<call[k].name, call[k].uid>> \in ran
      \/ /\ \E u \in 1..MaxJobs : <<call[k].name, u>> \in ran
         /\ \A i \in jobs : i.uid # call[k].uid
  BY <1>1, <1>3, OtherOfTheName
<1>5. ran \subseteq Names \X (1..MaxJobs)
  BY DEF KubeInv, KubeBasics, KubeTypes
<1>6. \A i \in jobs' : NameOf(i) = call[k].name => ~Unfinished(i)
  <2>1. j \in jobs /\ NameOf(j) = call[k].name /\ ~Unfinished(j)
    BY <1>2 DEF Named, Unfinished
  <2> QED
    BY <1>1, <2>1 DEF KubeInv, KubeBasics, JobsFresh
<1> QED
  BY <1>1, <1>4, <1>5, <1>6, ToFinishInv

LEMMA PollIdleInv ==
    ASSUME KubeInv, NEW k \in Calls, PollIdle(k)
    PROVE  KubeInv'
<1>1. /\ call[k].pc = "poll" /\ Goto(k, "finish") /\ exits' = exits \cup {call[k].name}
      /\ jobs' = jobs \ Named(call[k].name) /\ jobs' \subseteq jobs
      /\ UNCHANGED <<sets, selected, made, late, strays>>
  BY DEF PollIdle
<1>2. PICK j \in Named(call[k].name) : ran' = ran \cup {<<call[k].name, j.uid>>}
  BY DEF PollIdle
<1>3. <<call[k].name, j.uid>> \in ran' /\ j.uid \in 1..MaxJobs /\ ran \subseteq ran'
  BY <1>2 DEF KubeInv, Named, KubeBasics, KubeTypes, Job
<1>4. \/ <<call[k].name, call[k].uid>> \in ran'
      \/ /\ \E u \in 1..MaxJobs : <<call[k].name, u>> \in ran'
         /\ \A i \in jobs' : i.uid # call[k].uid
  BY <1>1, <1>3, OtherOfTheName
<1>5. call[k].name \in Names
  BY <1>1 DEF KubeInv, KubeBasics, JobCallPlaced
<1>6. ran' \subseteq Names \X (1..MaxJobs)
  BY <1>2, <1>3, <1>5 DEF KubeInv, KubeBasics, KubeTypes
<1>7. \A i \in jobs' : NameOf(i) # call[k].name
  BY <1>1 DEF Named
<1> QED
  BY <1>1, <1>3, <1>4, <1>6, <1>7, ToFinishInv

LEMMA KubeBeginInv ==
    ASSUME KubeInv, NEW k \in Calls, NEW c \in Commands, Begin(k, c)
    PROVE  KubeInv'
<1>1. PICK r : r = [Idle EXCEPT !.cmd = c, !.idx = 1,
                       !.pc = IF Mode[c] = "restart" THEN "resume" ELSE "next"]
  OBVIOUS
<1>2. /\ r \in JobCall
      /\ r.pc \in {"resume", "next"} /\ r.cmd = c /\ r.idx = 1 /\ ~r.loose /\ r.uid = 0
      /\ r.next = 1 /\ r.seen = {} /\ r.reuse = NoProc
  <2>1. /\ r.pc \in {"resume", "next"} /\ r.cmd = c /\ r.idx = 1 /\ ~r.loose /\ r.uid = 0
        /\ r.next = 1 /\ r.seen = {} /\ r.reuse = NoProc
    BY <1>1 DEF Idle
  <2>2. r \in JobCall
    BY <1>1, IdleType DEF JobCall
  <2> QED
    BY <2>1, <2>2
<1>3. /\ call' = [call EXCEPT ![k] = r]
      /\ UNCHANGED <<jobs, sets, selected, exits, made, ran, late, strays>>
      /\ \A m \in Calls : call[m].cmd = c => call[m].loose
  BY <1>1 DEF Begin, clusterVars, history
<1>4. /\ call' \in [Calls -> JobCall] /\ call'[k] = r
      /\ \A m \in Calls \ {k} : call'[m] = call[m]
  BY <1>2, <1>3 DEF KubeInv, KubeBasics, KubeTypes
<1>5. \A m \in Calls : JobCallPlaced(m)'
  <2>1. JobCallPlaced(k)'
    BY <1>2, <1>4 DEF JobCallPlaced
  <2>2. \A m \in Calls \ {k} : JobCallPlaced(m)'
    BY <1>3, <1>4 DEF KubeInv, KubeBasics, JobCallPlaced
  <2> QED
    BY <2>1, <2>2
<1>6. KubeBasics'
  <2>1. \A m \in Calls : /\ call'[m].uid \in {0, call[m].uid} /\ call'[m].seen \subseteq call[m].seen
                         /\ call'[m].next \in {1, call[m].next}
                         /\ call'[m].reuse \in {NoProc, call[m].reuse}
    BY <1>2, <1>4
  <2>2. /\ jobs' \subseteq Job /\ UNCHANGED <<made, late>>
        /\ sets' \in [Procs -> {"none", "starting", "ready"}]
        /\ selected' \in [Commands -> Procs \cup {NoProc}] /\ exits' \subseteq Names
        /\ ran' \subseteq Names \X (1..MaxJobs) /\ strays' \subseteq Commands
    BY <1>3 DEF KubeInv, KubeBasics, KubeTypes
  <2>3. /\ \A i \in jobs' : \E d \in jobs : i.uid = d.uid /\ NameOf(i) = NameOf(d)
        /\ \A i, j \in jobs' : i.uid = j.uid => i = j
    BY <1>3 DEF KubeInv, KubeBasics, JobsFresh
  <2> QED
    BY <1>4, <1>5, <2>1, <2>2, <2>3, ClusterBasics DEF KubeInv
<1>7. JobsDwindle
  BY <1>3, SubsetJobsDwindle
<1>8. \A m \in Calls : CallKnows(m)'
  <2>1. CallKnows(k)'
    BY <1>2, <1>4, KnowsNothing
  <2>2. ASSUME NEW m \in Calls \ {k} PROVE CallKnows(m)'
    <3>1. JobCallStays(m)
      BY <1>4 DEF JobCallStays
    <3> QED
      BY <1>3, <1>7, <3>1, KnowsStays
  <2> QED
    BY <2>1, <2>2
<1>9. OneCall'
  BY <1>2, <1>3, <1>4 DEF KubeInv, OneCall
<1>10. OneActiveJob' /\ RanRight' /\ JobsRun'
  BY <1>3, <1>6, <1>7, OneActiveJobDwindles, RanRightStays, JobsRunStays
<1> QED
  BY <1>6, <1>8, <1>9, <1>10 DEF KubeInv

LEMMA ResumeIndexType ==
    ASSUME KubeBasics, NEW c \in Commands
    PROVE  /\ ResumeIndex(c) \in Nat /\ 1 <= ResumeIndex(c)
           /\ \A j \in ActiveJobs(c) : j.proc[2] \in Nat /\ j.proc[2] <= ResumeIndex(c)
<1> DEFINE S == {1} \cup {j.proc[2] : j \in ActiveJobs(c)}
<1>1. \A j \in ActiveJobs(c) : j.proc \in Procs /\ j.proc[1] = c
  BY DEF ActiveJobs, KubeBasics, KubeTypes, Job
<1>2. \A j \in ActiveJobs(c) : j.proc[2] \in Nat /\ j.proc[2] <= Length[c]
  BY <1>1, CommandOfProcedure
<1>3. Length[c] \in Nat /\ 1 <= Length[c]
  BY ProceduresAssumption
<1>4. S \in SUBSET Nat /\ S # {} /\ \A x \in S : x <= Length[c]
  BY <1>2, <1>3
<1>5. Max(S) \in S /\ \A y \in S : y <= Max(S)
  BY <1>3, <1>4, MaxAbove
<1>6. ResumeIndex(c) = Max(S)
  BY DEF ResumeIndex
<1> HIDE DEF S
<1>7. 1 \in S /\ \A j \in ActiveJobs(c) : j.proc[2] \in S
  BY DEF S
<1> QED
  BY <1>2, <1>4, <1>5, <1>6, <1>7

\* A restart command goes on with the last active procedure; the active jobs
\* of earlier ones are to be deleted.
LEMMA ResumeInv ==
    ASSUME KubeInv, NEW k \in Calls, Resume(k)
    PROVE  KubeInv'
<1> DEFINE c == call[k].cmd
           index == ResumeIndex(c)
           S == {j.uid : j \in ActiveJobs(c)}
<1>1. PICK r : r = [call[k] EXCEPT !.pc = "supersede", !.idx = index, !.todo = Superseded(c, index),
                                   !.seen = S]
  OBVIOUS
<1>2. /\ call[k] \in JobCall /\ call[k].pc = "resume" /\ c \in Commands
      /\ UNCHANGED <<jobs, sets, selected, exits, made, ran, late, strays>>
  BY JobCallFacts DEF KubeInv, KubeBasics, JobCallPlaced, Resume, clusterVars, history
<1>3. /\ index \in Nat /\ 1 <= index
      /\ \A j \in ActiveJobs(c) : j.proc[2] \in Nat /\ j.proc[2] <= index
  BY <1>2, ResumeIndexType DEF KubeInv
<1>4. ActiveJobs(c) \subseteq jobs /\ \A j \in ActiveJobs(c) : j \in Job /\ j.uid <= made /\ j.proc[1] = c
  BY DEF ActiveJobs, KubeInv, KubeBasics, KubeTypes, JobsFresh
<1>5. S \in SUBSET Nat /\ Superseded(c, index) \in SUBSET Names /\ \A u \in S : u <= made
  BY <1>4 DEF Superseded, Names, NameOf, Job
<1> HIDE DEF index, S, c
<1>6. /\ r \in JobCall
      /\ r.pc = "supersede" /\ r.idx = index /\ r.todo = Superseded(c, index) /\ r.seen = S
      /\ r.next = call[k].next /\ r.reuse = call[k].reuse
      /\ r.uid = call[k].uid /\ r.cmd = call[k].cmd /\ r.loose = call[k].loose
  BY <1>1, <1>2, <1>3, <1>5 DEF JobCall
<1>7. call' = [call EXCEPT ![k] = r]
  BY <1>1 DEF Resume, c, index, S
<1>8. JobCallStep(k) /\ call'[k] = r
  BY <1>2, <1>6, <1>7, JobCallGoesOn DEF KubeInv, KubeBasics
<1>9. KubeBasics'
  <2>1. /\ call'[k].uid <= made /\ \A u \in call'[k].seen : u <= made
        /\ 1 <= call'[k].next /\ call'[k].next <= made + 1
        /\ call'[k].reuse # NoProc => call'[k].reuse.uid <= made
    BY <1>5, <1>6, <1>8, JobCallFacts DEF KubeInv
  <2> QED
    BY <1>2, <1>3, <1>6, <1>8, <2>1, JobCallBasics DEF KubeInv, KubeBasics, KubeTypes
<1>10. JobsDwindle /\ RanRight'
  BY <1>2, SubsetJobsDwindle, RanRightStays
<1>11. CallKnows(k)'
  <2>0. KeepsName(k)
    BY DEF KubeInv, CallKnows
  <2>1. KeepsName(k)' /\ SoleJob(k)' /\ ServedOf(k)' /\ RanOf(k)' /\ ImageOf(k)'
    <3>1. KeepsName(k)'
      BY <1>2, <1>6, <1>8, <2>0 DEF KeepsName, NameOf
    <3>2. SoleJob(k)' /\ ServedOf(k)' /\ RanOf(k)' /\ ImageOf(k)'
      BY <1>6, <1>8 DEF SoleJob, ServedOf, RanOf, ImageOf
    <3> QED
      BY <3>1, <3>2
  <2>2. AloneOf(k)'
    <3>1. ASSUME NEW j \in jobs, Unfinished(j), j.uid \in S
          PROVE  j.proc = <<c, index>> \/ NameOf(j) \in Superseded(c, index)
      <4>1. j \in ActiveJobs(c)
        BY <1>4, <3>1 DEF S, KubeInv, KubeBasics, JobsFresh
      <4>2. j.proc \in Procs /\ j.proc[1] = c
        BY <1>4, <4>1 DEF Job
      <4>3. CASE j.proc[2] = index
        BY <4>2, <4>3, CommandOfProcedure
      <4>4. CASE j.proc[2] < index
        BY <4>1, <4>4 DEF Superseded
      <4> QED
        BY <1>3, <4>1, <4>3, <4>4
    <3>2. Place(call'[k]) = <<c, index>>
      BY <1>6, <1>8 DEF Place, c
    <3>3. ASSUME NEW j \in jobs', Unfinished(j), j.uid \in call'[k].seen
          PROVE  Awaits(call'[k], j)
      BY <1>2, <1>6, <1>8, <3>1, <3>2, <3>3 DEF Awaits
    <3> QED
      BY <3>3 DEF AloneOf, Awaits, Unfinished, NameOf
  <2> QED
    BY <2>1, <2>2 DEF CallKnows
<1> QED
  BY <1>2, <1>8, <1>9, <1>10, <1>11, QuietJobStep

\* An attempt is numbered above all that are kept, and the newest unfinished
\* job is used again.
LEMMA ListedType ==
    ASSUME KubeBasics, NEW p,
           NEW n, n = 1 + Max({0} \cup {j.attempt : j \in {j \in JobsOf(p) : j.status # "succeeded"}})
    PROVE  n \in Nat /\ 1 <= n /\ n <= made + 1
<1> DEFINE S == {0} \cup {j.attempt : j \in {j \in JobsOf(p) : j.status # "succeeded"}}
<1>1. made \in Nat
  BY DEF KubeBasics, KubeTypes
<1>2. \A j \in JobsOf(p) : j.attempt \in Nat /\ j.attempt <= made
  BY DEF KubeBasics, KubeTypes, JobsFresh, Job, Attempts, JobsOf
<1>3. S \in SUBSET Nat /\ S # {} /\ \A x \in S : x <= made
  BY <1>1, <1>2
<1>4. Max(S) \in S
  BY <1>1, <1>3, MaxAbove
<1>5. n = 1 + Max(S)
  OBVIOUS
<1> QED
  BY <1>1, <1>3, <1>4, <1>5

LEMMA NewestJob ==
    ASSUME KubeBasics, NEW open \in SUBSET jobs, open # {}
    PROVE  \E j \in open : \A i \in open : i.uid <= j.uid
<1> DEFINE U == {j.uid : j \in open}
<1>1. made \in Nat /\ \A j \in open : j.uid \in Nat /\ j.uid <= made
  BY DEF KubeBasics, KubeTypes, JobsFresh, Job
<1>2. U \in SUBSET Nat /\ U # {} /\ \A x \in U : x <= made
  BY <1>1
<1>3. PICK u \in U : \A x \in U : x <= u
  BY <1>1, <1>2, HasMaximum
<1> QED
  BY <1>3

LEMMA KubeListInv ==
    ASSUME KubeInv, NEW k \in Calls, List(k)
    PROVE  KubeInv'
<1> DEFINE p == Current(k)
           open == Reusable(p)
           newest == CHOOSE j \in open : \A i \in open : i.uid <= j.uid
           reused == IF open = {} THEN NoProc ELSE newest
           over == {NameOf(j) : j \in {j \in JobsOf(p) : j.status = "succeeded"}}
           n == 1 + Max({0} \cup {j.attempt : j \in {j \in JobsOf(p) : j.status # "succeeded"}})
<1>0. call' = [call EXCEPT ![k].pc = "clean", ![k].todo = over, ![k].next = n, ![k].reuse = reused]
  BY DEF List
<1>2. /\ call[k] \in JobCall /\ call[k].pc = "list" /\ p = Place(call[k])
      /\ UNCHANGED <<jobs, sets, selected, exits, made, ran, late, strays>>
      /\ call[k].idx >= 1 /\ call[k].idx <= Length[call[k].cmd]
  <2>1. call[k].pc = "list" /\ UNCHANGED <<jobs, sets, selected, exits, made, ran, late, strays>>
    BY DEF List, clusterVars, history
  <2>2. call[k].idx >= 1 /\ call[k].idx <= Length[call[k].cmd]
    BY <2>1 DEF KubeInv, KubeBasics, JobCallPlaced
  <2> QED
    BY <2>1, <2>2, JobCallFacts, JobPlaceType DEF KubeInv
<1>3. over \in SUBSET Names
  BY DEF JobsOf, KubeInv, KubeBasics, KubeTypes, Job, NameOf, Names
<1>4. n \in Nat /\ 1 <= n /\ n <= made + 1
  BY ListedType DEF KubeInv
<1>5. open \in SUBSET jobs /\ \A j \in open : j.proc = p /\ Unfinished(j)
  BY DEF Reusable, JobsOf
<1>6. open # {} => newest \in open
  BY <1>5, NewestJob DEF KubeInv
<1>7. reused \in Job \cup {NoProc} /\ (reused # NoProc => reused \in jobs)
  BY <1>5, <1>6 DEF KubeInv, KubeBasics, KubeTypes
<1>8. reused = NoProc => open = {}
  BY <1>5, <1>6, NoJobAssumption DEF KubeInv, KubeBasics, KubeTypes
<1>16. open # {} => reused # NoProc /\ reused \in open
  BY <1>6, <1>8
<1> HIDE DEF newest, reused, over, n
<1>1. PICK r : r = [call[k] EXCEPT !.pc = "clean", !.todo = over, !.next = n, !.reuse = reused]
  OBVIOUS
<1>9. call' = [call EXCEPT ![k] = r]
  BY <1>0, <1>1
<1>10. /\ r \in JobCall
       /\ r.pc = "clean" /\ r.idx = call[k].idx /\ r.seen = call[k].seen
       /\ r.next = n /\ r.reuse = reused
       /\ r.uid = call[k].uid /\ r.cmd = call[k].cmd /\ r.loose = call[k].loose
  BY <1>1, <1>2, <1>3, <1>4, <1>7 DEF JobCall
<1>11. JobCallStep(k) /\ call'[k] = r
  BY <1>2, <1>9, <1>10, JobCallGoesOn DEF KubeInv, KubeBasics
<1>12. KubeBasics'
  <2>1. /\ call'[k].uid <= made /\ \A u \in call'[k].seen : u <= made
        /\ 1 <= call'[k].next /\ call'[k].next <= made + 1
        /\ call'[k].reuse # NoProc => call'[k].reuse.uid <= made
    BY <1>4, <1>7, <1>10, <1>11, JobCallFacts DEF KubeInv, KubeBasics, JobsFresh
  <2> QED
    BY <1>2, <1>10, <1>11, <2>1, JobCallBasics DEF KubeInv, KubeBasics, KubeTypes
<1>13. JobsDwindle /\ RanRight'
  BY <1>2, SubsetJobsDwindle, RanRightStays
<1>14. Place(call'[k]) = p
  BY <1>2, <1>10, <1>11 DEF Place
<1>15. CallKnows(k)'
  <2>1. KeepsName(k)'
    BY <1>2, <1>7, <1>10, <1>11 DEF KeepsName, KubeInv, KubeBasics, JobsFresh, NameOf
  <2>2. SoleJob(k)'
    BY <1>2, <1>8, <1>10, <1>11, <1>14 DEF SoleJob, Reusable, JobsOf, Unfinished
  <2>3. AloneOf(k)'
    <3>1. ASSUME late' = {}, NEW j \in jobs', Unfinished(j), j.uid \in call'[k].seen
          PROVE  Awaits(call'[k], j)
      <4>1. j \in jobs /\ late = {} /\ j.uid \in call[k].seen
        BY <1>2, <1>10, <1>11, <3>1
      <4>2. j.proc = p
        BY <1>2, <3>1, <4>1 DEF KubeInv, CallKnows, AloneOf, Awaits
      <4>3. j \in open
        BY <3>1, <4>1, <4>2 DEF Reusable, JobsOf
      <4>4. reused # NoProc /\ reused \in open
        BY <1>16, <4>3
      <4>5. j = reused
        BY <1>5, <3>1, <4>1, <4>2, <4>4 DEF KubeInv, OneActiveJob
      <4> QED
        BY <1>10, <1>11, <1>14, <4>2, <4>4, <4>5 DEF Awaits
    <3> QED
      BY <3>1 DEF AloneOf, Awaits, Unfinished, NameOf
  <2>4. ServedOf(k)' /\ RanOf(k)' /\ ImageOf(k)'
    BY <1>2, <1>10, <1>11, <1>14 DEF KubeInv, CallKnows, ServedOf, RanOf, ImageOf
  <2> QED
    BY <2>1, <2>2, <2>3, <2>4 DEF CallKnows
<1> QED
  BY <1>2, <1>11, <1>12, <1>13, <1>15, QuietJobStep

LEMMA KubeCreateInv ==
    ASSUME KubeInv, NEW k \in Calls, Create(k)
    PROVE  KubeInv'
<1>0. PICK n, v : n = <<Current(k), call[k].next>> /\ v = made + 1
  OBVIOUS
<1>1. PICK r : r = [call[k] EXCEPT !.pc = "poll", !.name = n, !.uid = v, !.next = 1]
  OBVIOUS
<1>2. /\ call[k] \in JobCall /\ call[k].pc = "clean" /\ call[k].reuse = NoProc
      /\ UNCHANGED <<sets, selected, exits, ran, strays>>
      /\ made' = made + 1 /\ made < MaxJobs
      /\ late' = IF call[k].loose THEN late \cup {made + 1} ELSE late
      /\ Named(<<Current(k), call[k].next>>) = {}
  BY JobCallFacts DEF KubeInv, Create
<1>3. Current(k) \in Procs /\ Current(k) = Place(call[k])
  BY <1>2, JobPlaceType DEF KubeInv
<1>4. /\ made \in Nat /\ made + 1 \in 1..MaxJobs /\ made' \in 0..MaxJobs
      /\ call[k].next \in Attempts /\ call[k].next <= made + 1
  <2>1. made \in Nat /\ call[k].next \in Nat /\ 1 <= call[k].next /\ call[k].next <= made + 1
    BY <1>2, JobCallFacts DEF KubeInv, JobCall
  <2> QED
    BY <1>2, <2>1, KubernetesAssumption DEF Attempts
<1>5. <<Current(k), call[k].next>> \in Names
  BY <1>3, <1>4 DEF Names
<1>6. /\ r \in JobCall
      /\ r.pc = "poll" /\ r.name = <<Current(k), call[k].next>> /\ r.uid = made + 1 /\ r.next = 1
      /\ r.idx = call[k].idx /\ r.seen = call[k].seen /\ r.reuse = NoProc
      /\ r.cmd = call[k].cmd /\ r.loose = call[k].loose
  <2>1. n \in Names /\ v \in Nat
    BY <1>0, <1>4, <1>5
  <2>2. /\ r \in JobCall
        /\ r.pc = "poll" /\ r.name = n /\ r.uid = v /\ r.next = 1
        /\ r.idx = call[k].idx /\ r.seen = call[k].seen /\ r.reuse = call[k].reuse
        /\ r.cmd = call[k].cmd /\ r.loose = call[k].loose
    BY <1>1, <1>2, <2>1 DEF JobCall
  <2> QED
    BY <1>0, <1>2, <2>2
<1>7. call' = [call EXCEPT ![k] = r]
  BY <1>0, <1>1 DEF Create
<1>8. JobCallStep(k) /\ call'[k] = r
  BY <1>2, <1>6, <1>7, JobCallGoesOn DEF KubeInv, KubeBasics
<1>9. PICK x : x = [proc |-> Current(k), attempt |-> call[k].next, uid |-> made + 1, status |-> "new"]
  OBVIOUS
<1>10. /\ x \in Job /\ x.proc = Current(k) /\ x.attempt = call[k].next /\ x.uid = made + 1
       /\ x.status = "new" /\ NameOf(x) = <<Current(k), call[k].next>> /\ Unfinished(x)
  BY <1>3, <1>4, <1>9 DEF Job, NameOf, Unfinished
<1>11. jobs' = jobs \cup {x}
  BY <1>9 DEF Create
<1>12. /\ \A j \in jobs : j.uid \in Nat /\ j.uid <= made /\ j.attempt \in Nat /\ j.attempt <= made
       /\ \A j \in jobs : j.uid # made + 1 /\ NameOf(j) # NameOf(x)
  <2>1. \A j \in jobs : j.uid \in Nat /\ j.uid <= made /\ j.attempt \in Nat /\ j.attempt <= made
    BY DEF KubeInv, KubeBasics, KubeTypes, JobsFresh, Job, Attempts
  <2>2. \A j \in jobs : j.uid # made + 1
    BY <1>4, <2>1
  <2>3. \A j \in jobs : NameOf(j) # NameOf(x)
    BY <1>2, <1>10 DEF Named
  <2> QED
    BY <2>1, <2>2, <2>3
<1>13. late \subseteq late' /\ late' \subseteq 1..MaxJobs /\ (call[k].loose => x.uid \in late')
  BY <1>2, <1>4, <1>10 DEF KubeInv, KubeBasics, KubeTypes
<1>14. KubeTypes'
  BY <1>2, <1>4, <1>8, <1>10, <1>11, <1>13 DEF KubeInv, KubeBasics, KubeTypes, JobCallStep
<1>15. ASSUME NEW m \in Calls PROVE JobCallPlaced(m)'
  <2>1. CASE m = k
    <3>1. JobCallPlaced(k)
      BY DEF KubeInv, KubeBasics
    <3> QED
      BY <1>2, <1>5, <1>6, <1>8, <2>1, <3>1 DEF JobCallPlaced
  <2>2. CASE m # k
    <3>1. call'[m] = call[m] /\ JobCallPlaced(m)
      BY <1>8, <2>2 DEF JobCallStep, KubeInv, KubeBasics
    <3> QED
      BY <1>2, <3>1 DEF JobCallPlaced
  <2> QED
    BY <2>1, <2>2
<1>16. JobsFresh'
  <2>1. \A j \in jobs' : j.uid <= made' /\ j.attempt <= made'
    BY <1>2, <1>4, <1>10, <1>11, <1>12
  <2>2. \A i, j \in jobs' : i.uid = j.uid \/ NameOf(i) = NameOf(j) => i = j
    BY <1>10, <1>11, <1>12 DEF KubeInv, KubeBasics, JobsFresh
  <2>3. ASSUME NEW m \in Calls
        PROVE  /\ call'[m].uid <= made' /\ \A u \in call'[m].seen : u <= made'
               /\ 1 <= call'[m].next /\ call'[m].next <= made' + 1
               /\ call'[m].reuse # NoProc => call'[m].reuse.uid <= made'
    <3>1. /\ call[m] \in JobCall /\ call[m].uid <= made /\ 1 <= call[m].next
          /\ call[m].next <= made + 1 /\ \A u \in call[m].seen : u <= made
          /\ call[m].reuse # NoProc => call[m].reuse.uid <= made
      BY JobCallFacts DEF KubeInv
    <3>2. /\ call[m].uid \in Nat /\ call[m].next \in Nat /\ call[m].seen \subseteq Nat
          /\ call[m].reuse # NoProc => call[m].reuse.uid \in Nat
      BY <3>1 DEF JobCall, Job
    <3>3. CASE m # k
      <4>1. call'[m] = call[m]
        BY <1>8, <3>3 DEF JobCallStep
      <4> QED
        BY <1>2, <1>4, <3>1, <3>2, <4>1
    <3>4. CASE m = k
      BY <1>2, <1>4, <1>6, <1>8, <3>1, <3>2, <3>4
    <3> QED
      BY <3>3, <3>4
  <2> QED
    BY <2>1, <2>2, <2>3 DEF JobsFresh, NameOf
<1>17. KubeBasics'
  BY <1>14, <1>15, <1>16 DEF KubeBasics
<1>18. ASSUME NEW j \in jobs, j.proc = x.proc, Unfinished(j)
       PROVE  j.uid \in late' \/ x.uid \in late'
  BY <1>2, <1>3, <1>10, <1>13, <1>18 DEF KubeInv, CallKnows, SoleJob
<1>19. OneActiveJob'
  BY <1>11, <1>13, <1>18 DEF KubeInv, OneActiveJob, Unfinished
<1>20. Place(call'[k]) = Place(call[k])
  BY <1>6, <1>8 DEF Place
<1>21. ASSUME NEW m \in Calls
       PROVE  /\ x.uid \notin call[m].seen /\ x.uid # call[m].uid
              /\ call[m].reuse # NoProc => x.uid # call[m].reuse.uid
              /\ KeepsName(m) /\ SoleJob(m) /\ AloneOf(m) /\ ImageOf(m) /\ ServedOf(m) /\ RanOf(m)
  <2>1. ~(made + 1 <= made)
    BY <1>4
  <2>2. /\ x.uid \notin call[m].seen /\ x.uid # call[m].uid
        /\ call[m].reuse # NoProc => x.uid # call[m].reuse.uid
    BY <1>10, <2>1, JobCallFacts DEF KubeInv
  <2> QED
    BY <2>2 DEF KubeInv, CallKnows
<1>22. CallKnows(k)'
  <2>1. KeepsName(k)'
    BY <1>6, <1>8, <1>10, <1>11, <1>12 DEF KeepsName, NameOf
  <2>2. SoleJob(k)' /\ RanOf(k)'
    BY <1>6, <1>8 DEF SoleJob, RanOf
  <2>3. AloneOf(k)'
    <3>1. ASSUME late' = {}, NEW j \in jobs', Unfinished(j), j.uid \in call'[k].seen
          PROVE  FALSE
      <4>1. j \in jobs /\ late = {}
        BY <1>6, <1>8, <1>11, <1>13, <1>21, <3>1
      <4>2. Awaits(call[k], j)
        BY <1>6, <1>8, <1>21, <3>1, <4>1 DEF AloneOf
      <4> QED
        BY <1>2, <4>2 DEF Awaits
    <3> QED
      BY <3>1 DEF AloneOf, Unfinished
  <2>4. ServedOf(k)' /\ ImageOf(k)'
    BY <1>2, <1>6, <1>8, <1>20, <1>21 DEF ServedOf, ImageOf
  <2> QED
    BY <2>1, <2>2, <2>3, <2>4 DEF CallKnows
<1>23. ASSUME NEW m \in Calls \ {k} PROVE CallKnows(m)'
  <2>1. call'[m] = call[m] /\ Place(call'[m]) = Place(call[m])
    BY <1>8 DEF JobCallStep
  <2>2. KeepsName(m)'
    BY <1>11, <1>21, <2>1 DEF KeepsName, NameOf
  <2>3. SoleJob(m)'
    <3>1. CASE Place(call[m]) # Place(call[k])
      BY <1>3, <1>10, <1>11, <1>13, <1>21, <2>1, <3>1 DEF SoleJob, Unfinished
    <3>2. CASE Place(call[m]) = Place(call[k])
      <4>1. call[m].pc # "idle" /\ ~call[m].loose => call[k].loose
        BY <1>2, <3>2 DEF KubeInv, OneCall, Place
      <4>2. call[m].pc # "idle" /\ ~call[m].loose => x.uid \in late'
        BY <1>13, <4>1
      <4> QED
        BY <1>11, <1>13, <1>21, <2>1, <4>2 DEF SoleJob, Unfinished
    <3> QED
      BY <3>1, <3>2
  <2>4. AloneOf(m)'
    <3>1. ASSUME late' = {}, NEW j \in jobs', Unfinished(j), j.uid \in call'[m].seen
          PROVE  Awaits(call'[m], j)
      <4>1. j \in jobs /\ late = {}
        BY <1>11, <1>13, <1>21, <2>1, <3>1
      <4> QED
        BY <1>21, <2>1, <3>1, <4>1 DEF AloneOf
    <3> QED
      BY <3>1 DEF AloneOf, Awaits, Unfinished, NameOf
  <2>5. ServedOf(m)' /\ RanOf(m)' /\ ImageOf(m)'
    BY <1>2, <1>11, <1>21, <2>1 DEF ServedOf, RanOf, ImageOf
  <2> QED
    BY <2>2, <2>3, <2>4, <2>5 DEF CallKnows
<1>24. RanRight'
  BY <1>2, <1>10, <1>11 DEF KubeInv, RanRight, NameOf
<1>25. OneCall'
  BY <1>8, OneCallStep
<1>26. JobsRun'
  <2>1. Kind[x.proc] = "image" /\ Mode[x.proc[1]] # "persistent"
    BY <1>2, <1>3, <1>10, <1>21 DEF ImageOf, Place
  <2> QED
    BY <1>11, <2>1 DEF KubeInv, JobsRun
<1> QED
  BY <1>17, <1>19, <1>22, <1>23, <1>24, <1>25, <1>26 DEF KubeInv

\* A stop leaves calls behind, and ends jobs by deleting them.
LEMMA KubeStopInv ==
    ASSUME KubeInv, StopRuntime \/ \E c \in Commands : StopCommand(c)
    PROVE  KubeInv'
<1>1. PICK cmds \in SUBSET Commands :
         /\ jobs' \subseteq jobs /\ UNCHANGED <<exits, made, ran, late>>
         /\ sets' \in [Procs -> {"none", "starting", "ready"}]
         /\ selected' \in [Commands -> Procs \cup {NoProc}]
         /\ \A c \in Commands \ cmds : selected'[c] = selected[c]
         /\ strays' \subseteq Commands /\ strays \subseteq strays'
         /\ \A k \in Calls : call[k].cmd \in cmds => call[k].cmd \in strays'
         /\ call' = [k \in Calls |-> IF call'[k] = call[k] THEN call[k]
                                     ELSE [call[k] EXCEPT !.loose = TRUE]]
         /\ \A k \in Calls : call'[k] = call[k] \/ call[k].cmd \in cmds
  <2>1. CASE StopRuntime
    <3>1. /\ jobs' \subseteq jobs /\ UNCHANGED <<exits, made, ran, late>>
          /\ sets' \in [Procs -> {"none", "starting", "ready"}] /\ UNCHANGED selected
          /\ strays' = strays \cup ({call[k].cmd : k \in Calls} \cap Commands)
          /\ call' = [k \in Calls |-> IF call[k].pc = "idle" THEN call[k]
                                      ELSE [call[k] EXCEPT !.loose = TRUE]]
      BY <2>1 DEF StopRuntime
    <3>2. \A k \in Calls : call[k].pc # "idle" => call[k].cmd \in Commands
      BY DEF KubeInv, KubeBasics, JobCallPlaced
    <3>3. strays' \subseteq Commands /\ selected' \in [Commands -> Procs \cup {NoProc}]
      BY <3>1 DEF KubeInv, KubeBasics, KubeTypes
    <3>4. call' = [k \in Calls |-> IF call'[k] = call[k] THEN call[k]
                                   ELSE [call[k] EXCEPT !.loose = TRUE]]
      BY <3>1
    <3>5. \A k \in Calls : call'[k] = call[k] \/ call[k].cmd \in Commands
      BY <3>1, <3>2
    <3> QED
      BY <3>1, <3>3, <3>4, <3>5
  <2>2. ASSUME NEW c \in Commands, StopCommand(c)
        PROVE  /\ jobs' \subseteq jobs /\ UNCHANGED <<exits, made, ran, late>>
               /\ sets' \in [Procs -> {"none", "starting", "ready"}]
               /\ selected' \in [Commands -> Procs \cup {NoProc}]
               /\ \A d \in Commands \ {c} : selected'[d] = selected[d]
               /\ strays' \subseteq Commands /\ strays \subseteq strays'
               /\ \A k \in Calls : call[k].cmd \in {c} => call[k].cmd \in strays'
               /\ call' = [k \in Calls |-> IF call'[k] = call[k] THEN call[k]
                                           ELSE [call[k] EXCEPT !.loose = TRUE]]
               /\ \A k \in Calls : call'[k] = call[k] \/ call[k].cmd \in {c}
    <3>1. /\ jobs' = {j \in jobs : j.proc[1] # c} /\ UNCHANGED <<exits, made, ran, late>>
          /\ sets' = [p \in Procs |-> IF p[1] = c THEN "none" ELSE sets[p]]
          /\ selected' = [selected EXCEPT ![c] = NoProc]
          /\ strays' = strays \cup ({call[k].cmd : k \in Calls} \cap {c})
          /\ call' = [k \in Calls |-> IF call[k].cmd # c THEN call[k]
                                      ELSE [call[k] EXCEPT !.loose = TRUE]]
      BY <2>2 DEF StopCommand
    <3>2. call' = [k \in Calls |-> IF call'[k] = call[k] THEN call[k]
                                   ELSE [call[k] EXCEPT !.loose = TRUE]]
      BY <3>1
    <3>3. \A k \in Calls : call'[k] = call[k] \/ call[k].cmd \in {c}
      BY <3>1
    <3>4. /\ sets' \in [Procs -> {"none", "starting", "ready"}]
          /\ selected' \in [Commands -> Procs \cup {NoProc}]
          /\ \A d \in Commands \ {c} : selected'[d] = selected[d]
          /\ strays' \subseteq Commands
      BY <3>1 DEF KubeInv, KubeBasics, KubeTypes
    <3> QED
      BY <3>1, <3>2, <3>3, <3>4
  <2>3. ASSUME NEW c \in Commands, StopCommand(c) PROVE {c} \in SUBSET Commands
    OBVIOUS
  <2> QED
    BY <2>1, <2>2, <2>3
<1>2. ASSUME NEW k \in Calls
      PROVE  /\ call'[k] \in JobCall /\ JobCallStays(k) /\ JobCallPlaced(k)'
             /\ call'[k].next = call[k].next
  <2>1. call[k] \in JobCall
    BY JobCallFacts DEF KubeInv
  <2>2. PICK r : r = [call[k] EXCEPT !.loose = TRUE]
    OBVIOUS
  <2>3. /\ r \in JobCall
        /\ r.pc = call[k].pc /\ r.cmd = call[k].cmd /\ r.idx = call[k].idx /\ r.todo = call[k].todo
        /\ r.reuse = call[k].reuse /\ r.name = call[k].name /\ r.uid = call[k].uid
        /\ r.seen = call[k].seen /\ r.next = call[k].next /\ r.loose
    BY <2>1, <2>2 DEF JobCall
  <2>4. call'[k] = call[k] \/ (call'[k] = r /\ call[k].cmd \in strays')
    BY <1>1, <2>2
  <2>5. call'[k] \in JobCall /\ JobCallStays(k) /\ call'[k].next = call[k].next
    BY <2>1, <2>3, <2>4 DEF JobCallStays
  <2>6. JobCallPlaced(k)'
    BY <1>1, <2>3, <2>4 DEF KubeInv, KubeBasics, JobCallPlaced
  <2> QED
    BY <2>5, <2>6
<1>3. call' \in [Calls -> JobCall]
  BY <1>1, <1>2
<1>4. KubeBasics'
  <2>1. /\ jobs' \subseteq Job /\ exits' \subseteq Names /\ ran' \subseteq Names \X (1..MaxJobs)
    BY <1>1 DEF KubeInv, KubeBasics, KubeTypes
  <2>2. /\ \A i \in jobs' : \E d \in jobs : i.uid = d.uid /\ NameOf(i) = NameOf(d)
        /\ \A i, j \in jobs' : i.uid = j.uid => i = j
    BY <1>1 DEF KubeInv, KubeBasics, JobsFresh
  <2>3. \A k \in Calls : /\ call'[k].uid \in {0, call[k].uid} /\ call'[k].seen \subseteq call[k].seen
                         /\ call'[k].next \in {1, call[k].next}
                         /\ call'[k].reuse \in {NoProc, call[k].reuse}
    BY <1>2 DEF JobCallStays
  <2> QED
    BY <1>1, <1>2, <1>3, <2>1, <2>2, <2>3, ClusterBasics DEF KubeInv
<1>5. JobsDwindle
  BY <1>1, SubsetJobsDwindle
<1>6. ASSUME NEW m \in Calls PROVE CallKnows(m)'
  <2>1. \/ selected'[call[m].cmd] = selected[call[m].cmd]
        \/ call[m].pc \notin {"list", "clean", "poll"} \/ call[m].cmd \in strays'
    BY <1>1 DEF KubeInv, KubeBasics, JobCallPlaced
  <2> QED
    BY <1>1, <1>2, <1>5, <2>1, KnowsStays
<1>7. OneCall'
  BY <1>2 DEF KubeInv, OneCall, JobCallStays
<1>8. OneActiveJob' /\ RanRight' /\ JobsRun'
  BY <1>1, <1>4, <1>5, OneActiveJobDwindles, RanRightStays, JobsRunStays
<1> QED
  BY <1>4, <1>6, <1>7, <1>8 DEF KubeInv

LEMMA CrashInv ==
    ASSUME KubeInv, Crash
    PROVE  KubeInv'
<1>1. /\ call' = [k \in Calls |-> Idle] /\ exits' = {} /\ strays' = {}
      /\ UNCHANGED <<jobs, sets, selected, made, ran, late>>
  BY DEF Crash, clusterVars
<1>2. \A k \in Calls : /\ call'[k].pc = "idle" /\ ~call'[k].loose /\ call'[k].seen = {}
                       /\ call'[k].reuse = NoProc /\ call'[k].uid = 0 /\ call'[k].next = 1
  BY <1>1 DEF Idle
<1>3. \A k \in Calls : JobCallPlaced(k)' /\ CallKnows(k)'
  BY <1>2, KnowsNothing DEF JobCallPlaced
<1>4. call' \in [Calls -> JobCall]
  BY <1>1, IdleType
<1>5. KubeBasics'
  <2>1. /\ \A i \in jobs' : \E d \in jobs : i.uid = d.uid /\ NameOf(i) = NameOf(d)
        /\ \A i, j \in jobs' : i.uid = j.uid => i = j
    BY <1>1 DEF KubeInv, KubeBasics, JobsFresh
  <2>2. \A k \in Calls : /\ call'[k].uid \in {0, call[k].uid} /\ call'[k].seen \subseteq call[k].seen
                         /\ call'[k].next \in {1, call[k].next}
                         /\ call'[k].reuse \in {NoProc, call[k].reuse}
    BY <1>2
  <2>3. /\ jobs' \subseteq Job /\ sets' \in [Procs -> {"none", "starting", "ready"}]
        /\ selected' \in [Commands -> Procs \cup {NoProc}] /\ ran' \subseteq Names \X (1..MaxJobs)
    BY <1>1 DEF KubeInv, KubeBasics, KubeTypes
  <2> QED
    BY <1>1, <1>3, <1>4, <2>1, <2>2, <2>3, ClusterBasics DEF KubeInv
<1>6. OneCall'
  BY <1>2 DEF OneCall
<1>7. OneActiveJob' /\ RanRight' /\ JobsRun'
  BY <1>1, <1>5, SubsetJobsDwindle, OneActiveJobDwindles, RanRightStays, JobsRunStays
<1> QED
  BY <1>3, <1>5, <1>6, <1>7 DEF KubeInv

\* A step of the cluster alone: the calls stay, and jobs only end or go.
LEMMA ClusterInv ==
    ASSUME KubeInv, JobsDwindle, jobs' \subseteq Job, \A i, j \in jobs' : i.uid = j.uid => i = j,
           UNCHANGED <<selected, call, made, late, strays>>, exits' \subseteq exits,
           sets' \in [Procs -> {"none", "starting", "ready"}],
           ran \subseteq ran', ran' \subseteq Names \X (1..MaxJobs),
           \A j \in jobs' : j.status = "succeeded" => <<NameOf(j), j.uid>> \in ran'
    PROVE  KubeInv'
<1>1. KubeBasics'
  <2>1. /\ selected' \in [Commands -> Procs \cup {NoProc}] /\ exits' \subseteq Names
        /\ strays' \subseteq Commands /\ call' \in [Calls -> JobCall]
        /\ \A k \in Calls : JobCallPlaced(k)'
    BY DEF KubeInv, KubeBasics, KubeTypes, JobCallPlaced
  <2>2. \A i \in jobs' : \E d \in jobs : i.uid = d.uid /\ NameOf(i) = NameOf(d)
    BY DEF JobsDwindle
  <2>3. \A k \in Calls : /\ call'[k].uid \in {0, call[k].uid} /\ call'[k].seen \subseteq call[k].seen
                         /\ call'[k].next \in {1, call[k].next}
                         /\ call'[k].reuse \in {NoProc, call[k].reuse}
    OBVIOUS
  <2> QED
    BY <2>1, <2>2, <2>3, ClusterBasics DEF KubeInv
<1>2. ASSUME NEW m \in Calls PROVE CallKnows(m)'
  <2>1. JobCallStays(m)
    BY DEF JobCallStays
  <2> QED
    BY <2>1, KnowsStays
<1>3. OneCall' /\ OneActiveJob' /\ JobsRun'
  BY <1>1, OneActiveJobDwindles, JobsRunStays DEF KubeInv, OneCall
<1>4. RanRight'
  <2>1. \A n \in exits' : \E u \in 1..MaxJobs : <<n, u>> \in ran'
    BY DEF KubeInv, RanRight
  <2> QED
    BY <2>1 DEF RanRight, NameOf
<1> QED
  BY <1>1, <1>2, <1>3, <1>4 DEF KubeInv

\* A job never becomes unfinished again, and one that succeeds has run.
LEMMA StatusInv ==
    ASSUME KubeInv, NEW j \in jobs, PodStarts(j) \/ JobSucceeds(j) \/ JobFails(j)
    PROVE  KubeInv'
<1>1. PICK status \in {"active", "succeeded", "failed"} :
         /\ SetStatus(j, status) /\ Unfinished(j)
         /\ status = "succeeded" => ran' = ran \cup {<<NameOf(j), j.uid>>}
         /\ status # "succeeded" => ran' = ran
         /\ UNCHANGED <<sets, selected, exits, call, made, late, strays>>
  <2>1. CASE PodStarts(j)
    BY <2>1 DEF PodStarts, Unfinished, history
  <2>2. CASE JobSucceeds(j)
    BY <2>2 DEF JobSucceeds, Unfinished
  <2>3. CASE JobFails(j)
    BY <2>3 DEF JobFails, Unfinished, history
  <2> QED
    BY <2>1, <2>2, <2>3
<1>2. PICK x : x = [j EXCEPT !.status = status]
  OBVIOUS
<1>3. jobs \subseteq Job /\ j \in Job
  BY DEF KubeInv, KubeBasics, KubeTypes
<1>4. /\ x \in Job /\ x.uid = j.uid /\ x.proc = j.proc /\ x.attempt = j.attempt /\ x.status = status
      /\ NameOf(x) = NameOf(j)
  BY <1>2, <1>3 DEF Job, NameOf
<1>5. jobs' = (jobs \ {j}) \cup {x}
  BY <1>1, <1>2 DEF SetStatus
<1>6. JobsDwindle
  <2>1. ASSUME NEW i \in jobs'
        PROVE  \E d \in jobs : i.uid = d.uid /\ NameOf(i) = NameOf(d) /\ (Unfinished(i) => Unfinished(d))
    <3>1. CASE i = x
      BY <1>1, <1>4, <3>1
    <3>2. CASE i # x
      BY <1>5, <2>1, <3>2
    <3> QED
      BY <3>1, <3>2
  <2> QED
    BY <2>1 DEF JobsDwindle
<1>7. jobs' \subseteq Job /\ \A i, d \in jobs' : i.uid = d.uid => i = d
  BY <1>3, <1>4, <1>5 DEF KubeInv, KubeBasics, JobsFresh
<1>8. ran \subseteq ran' /\ ran' \subseteq Names \X (1..MaxJobs)
  <2>1. NameOf(j) \in Names /\ j.uid \in 1..MaxJobs
    BY <1>3 DEF Job, NameOf, Names
  <2> QED
    BY <1>1, <2>1 DEF KubeInv, KubeBasics, KubeTypes
<1>9. \A i \in jobs' : i.status = "succeeded" => <<NameOf(i), i.uid>> \in ran'
  <2>1. \A i \in jobs : i.status = "succeeded" => <<NameOf(i), i.uid>> \in ran'
    BY <1>8 DEF KubeInv, RanRight
  <2>2. x.status = "succeeded" => <<NameOf(x), x.uid>> \in ran'
    BY <1>1, <1>4
  <2> QED
    BY <1>5, <2>1, <2>2
<1>10. sets' \in [Procs -> {"none", "starting", "ready"}] /\ exits' \subseteq exits
  BY <1>1 DEF KubeInv, KubeBasics, KubeTypes
<1> QED
  BY <1>1, <1>6, <1>7, <1>8, <1>9, <1>10, ClusterInv

LEMMA KubeQuietInv ==
    ASSUME KubeInv,
           \/ \E p \in Procs : ReplicaReady(p)
           \/ \E n \in exits : ExitExpires(n)
           \/ UNCHANGED kubeVars
    PROVE  KubeInv'
<1>1. /\ UNCHANGED <<jobs, selected, call, made, ran, late, strays>> /\ exits' \subseteq exits
      /\ sets' \in [Procs -> {"none", "starting", "ready"}]
  BY DEF KubeInv, KubeBasics, KubeTypes, ReplicaReady, ExitExpires, kubeVars, clusterVars, history
<1>2. JobsDwindle
  BY <1>1, SubsetJobsDwindle
<1>3. /\ jobs' \subseteq Job /\ \A i, j \in jobs' : i.uid = j.uid => i = j
      /\ ran' \subseteq Names \X (1..MaxJobs)
      /\ \A j \in jobs' : j.status = "succeeded" => <<NameOf(j), j.uid>> \in ran'
  BY <1>1 DEF KubeInv, KubeBasics, KubeTypes, JobsFresh, RanRight
<1> QED
  BY <1>1, <1>2, <1>3, ClusterInv

LEMMA KubeInvInit ==
    ASSUME KubeInit
    PROVE  KubeInv
<1>1. /\ jobs = {} /\ sets = [p \in Procs |-> "none"] /\ selected = [c \in Commands |-> NoProc]
      /\ exits = {} /\ call = [k \in Calls |-> Idle]
      /\ made = 0 /\ ran = {} /\ late = {} /\ strays = {}
  BY DEF KubeInit
<1>2. KubeTypes
  BY <1>1, IdleType, KubernetesAssumption DEF KubeTypes
<1>3. \A k \in Calls : /\ call[k].pc = "idle" /\ ~call[k].loose /\ call[k].seen = {}
                       /\ call[k].reuse = NoProc /\ call[k].uid = 0 /\ call[k].next = 1
  BY <1>1 DEF Idle
<1>4. (\A k \in Calls : JobCallPlaced(k)) /\ JobsFresh
  BY <1>1, <1>3 DEF JobCallPlaced, JobsFresh
<1>5. \A k \in Calls : CallKnows(k)
  BY <1>3 DEF CallKnows, KeepsName, SoleJob, AloneOf, ImageOf, ServedOf, RanOf
<1>6. OneCall /\ RanRight /\ OneActiveJob /\ JobsRun
  BY <1>1, <1>3 DEF OneCall, RanRight, OneActiveJob, JobsRun
<1> QED
  BY <1>2, <1>4, <1>5, <1>6 DEF KubeInv, KubeBasics

LEMMA RunCommandInv ==
    ASSUME KubeInv, NEW k \in Calls, RunCommand(k)
    PROVE  KubeInv'
<1>1. CASE \E c \in Commands : Begin(k, c)
  BY <1>1, KubeBeginInv
<1>2. CASE Resume(k)
  BY <1>2, ResumeInv
<1>3. CASE AllSuperseded(k) \/ \E n \in call[k].todo : DeleteListed(k, n)
  BY <1>3, DeletedInv, DeleteListedInv
<1>4. CASE CallFails(k) \/ Finished(k) \/ NoImage(k) \/ StatefulSetReady(k) \/ PollFailed(k)
  BY <1>4, JobReturnsInv
<1>5. CASE Signal(k)
  BY <1>5, KubeSignalInv
<1>6. CASE EnsureServices(k) \/ EnsureStatefulSet(k)
  BY <1>6, EnsureInv
<1>7. CASE List(k) \/ Reuse(k) \/ Create(k)
  BY <1>7, KubeListInv, ReuseInv, KubeCreateInv
<1>8. CASE PollMissing(k) \/ PollSucceeded(k) \/ PollIdle(k) \/ DeleteFinished(k)
  BY <1>8, PollMissingInv, PollSucceededInv, PollIdleInv, DeleteFinishedInv
<1> QED
  BY <1>1, <1>2, <1>3, <1>4, <1>5, <1>6, <1>7, <1>8 DEF RunCommand

LEMMA KubeInvStep ==
    ASSUME KubeInv, [KubeNext]_kubeVars
    PROVE  KubeInv'
<1>1. CASE \E k \in Calls : RunCommand(k)
  BY <1>1, RunCommandInv
<1>2. CASE StopRuntime \/ \E c \in Commands : StopCommand(c)
  BY <1>2, KubeStopInv
<1>3. CASE Crash
  BY <1>3, CrashInv
<1>4. CASE \E j \in jobs : PodStarts(j) \/ JobSucceeds(j) \/ JobFails(j)
  BY <1>4, StatusInv
<1>5. CASE \/ \E p \in Procs : ReplicaReady(p)
           \/ \E n \in exits : ExitExpires(n)
           \/ UNCHANGED kubeVars
  BY <1>5, KubeQuietInv
<1> QED
  BY <1>1, <1>2, <1>3, <1>4, <1>5 DEF KubeNext

\* What the run checks of a state follows from the invariant.
LEMMA KubeInvMeans ==
    ASSUME KubeInv
    PROVE  KubeTypeOK /\ OneActiveJob /\ ResumedAlone /\ PortFollows
<1>1. KubeTypeOK
  <2>1. ASSUME NEW k \in Calls
        PROVE  /\ call[k].pc \in {"idle", "resume", "supersede", "next", "list",
                                  "clean", "ready", "poll", "finish"}
               /\ call[k].todo \subseteq Names /\ call[k].next \in Attempts
               /\ call[k].name \in Names \cup {NoProc}
    <3>1. call[k] \in JobCall /\ 1 <= call[k].next /\ call[k].next <= made + 1 /\ made \in 0..MaxJobs
      BY JobCallFacts DEF KubeInv, KubeBasics, KubeTypes
    <3>2. call[k].next \in Attempts
      BY <3>1, KubernetesAssumption DEF JobCall, Attempts
    <3> QED
      BY <3>1, <3>2 DEF JobCall
  <2> QED
    BY <2>1 DEF KubeTypeOK, KubeInv, KubeBasics, KubeTypes
<1>2. \A k \in Calls : AloneOf(k) /\ ServedOf(k) /\ Current(k) = Place(call[k])
  BY DEF KubeInv, CallKnows, Current, Place
<1>3. ResumedAlone
  BY <1>2 DEF ResumedAlone, AloneOf, Awaits
<1>4. PortFollows
  BY <1>2 DEF PortFollows, ServedOf
<1> QED
  BY <1>1, <1>3, <1>4 DEF KubeInv

\* A call that goes past its procedure.
LEMMA KubePass ==
    ASSUME KubeInv, KubeNext, NEW k \in Calls, Passes(k)
    PROVE  \/ <<call[k].name, call[k].uid>> \in ran
           \/ Current(k) \in Ignored
           \/ /\ \E u \in 1..MaxJobs : <<call[k].name, u>> \in ran
              /\ \A j \in jobs : j.uid # call[k].uid
<1>1. call[k].pc \in {"poll", "finish"} /\ call'[k].pc = "next" /\ KubeTypes
  BY DEF Passes, KubeInv, KubeBasics
<1>2. ASSUME call'[k].pc = call[k].pc \/ call'[k].pc \in {"idle", "finish"} PROVE FALSE
  BY <1>1, <1>2
<1>3. ASSUME NEW m \in Calls, RunCommand(m)
      PROVE  m = k /\ (PollFailed(k) \/ DeleteFinished(k))
  <2>1. m = k
    <3>1. \/ JobCallStep(m)
          \/ \A d \in Calls \ {m} : call'[d] = call[d]
      BY <1>1, <1>3 DEF RunCommand, Begin, Resume, AllSuperseded, CallFails, Finished, DeleteListed, Signal,
         NoImage, EnsureServices, EnsureStatefulSet, StatefulSetReady, List, Reuse, Create, PollMissing,
         PollSucceeded, PollFailed, PollIdle, DeleteFinished, Goto, Pass, PassBut, Return, KubeTypes
    <3> QED
      BY <1>2, <3>1 DEF JobCallStep
  <2>2. ~Return(k) /\ ~Goto(k, "finish")
    BY <1>1, <1>2, JobReturnStep, JobGotoStep DEF Idle
  <2>3. ~PollMissing(k) /\ ~PollSucceeded(k) /\ ~PollIdle(k)
    BY <2>2 DEF PollMissing, PollSucceeded, PollIdle
  <2>4. /\ \A c \in Commands : ~Begin(k, c)
        /\ \A n \in call[k].todo : ~DeleteListed(k, n)
        /\ ~Resume(k) /\ ~AllSuperseded(k) /\ ~CallFails(k) /\ ~Finished(k) /\ ~Signal(k) /\ ~NoImage(k)
        /\ ~EnsureServices(k) /\ ~EnsureStatefulSet(k) /\ ~StatefulSetReady(k)
        /\ ~List(k) /\ ~Reuse(k) /\ ~Create(k)
    BY <1>1, <2>2 DEF Begin, DeleteListed, Resume, AllSuperseded, CallFails, Finished, Signal, NoImage,
       EnsureServices, EnsureStatefulSet, StatefulSetReady, List, Reuse, Create, AtProcedure
  <2> QED
    BY <1>3, <2>1, <2>3, <2>4 DEF RunCommand
<1>4. ~StopRuntime /\ \A c \in Commands : ~StopCommand(c)
  <2>1. ASSUME StopRuntime \/ \E c \in Commands : StopCommand(c) PROVE call'[k].pc = call[k].pc
    <3>1. \/ call'[k] = call[k] \/ call'[k] = [call[k] EXCEPT !.loose = TRUE]
      BY <2>1 DEF StopRuntime, StopCommand
    <3>2. call[k] \in JobCall
      BY <1>1 DEF KubeTypes
    <3> QED
      BY <3>1, <3>2 DEF JobCall
  <2> QED
    BY <1>2, <2>1
<1>5. ~Crash
  BY <1>2 DEF Crash, Idle
<1>6. ASSUME call' = call PROVE FALSE
  BY <1>2, <1>6
<1>7. /\ \A j \in jobs : ~PodStarts(j) /\ ~JobSucceeds(j) /\ ~JobFails(j)
      /\ \A p \in Procs : ~ReplicaReady(p)
      /\ \A n \in exits : ~ExitExpires(n)
  BY <1>6 DEF PodStarts, JobSucceeds, JobFails, ReplicaReady, ExitExpires
<1>8. PollFailed(k) \/ DeleteFinished(k)
  BY <1>3, <1>4, <1>5, <1>7 DEF KubeNext
<1>9. CASE PollFailed(k)
  <2>1. ~Return(k)
    BY <1>1, <1>2, JobReturnStep DEF Idle
  <2> QED
    BY <1>9, <2>1 DEF PollFailed
<1>10. CASE DeleteFinished(k)
  BY <1>10 DEF DeleteFinished, KubeInv, CallKnows, RanOf
<1> QED
  BY <1>8, <1>9, <1>10
-----------------------------------------------------------------------------
(* Both backends                                                           *)

\* One backend steps, and the other stands still.
LEMMA OneBackendSteps ==
    ASSUME [Next]_vars
    PROVE  [KubeNext]_kubeVars /\ [DockerNext]_dockerVars
BY DEF Next, vars

\* The invariant of each backend is that of the whole.
THEOREM BackendsInvariant == Spec => [](KubeInv /\ DockerInv)
<1>1. Init => KubeInv /\ DockerInv
  BY KubeInvInit, DockerInvInit DEF Init
<1>2. KubeInv /\ DockerInv /\ [Next]_vars => (KubeInv /\ DockerInv)'
  BY OneBackendSteps, KubeInvStep, DockerInvStep
<1> QED
  BY <1>1, <1>2, PTL DEF Spec

\* Every variable of internal/runtime/docker and internal/runtime/kubernetes
\* keeps its type: in particular attempts, uids and ids stay within what has
\* been created, whatever was pruned, kept or removed before.
THEOREM ProceduresTypeSafe == Spec => []ProceduresTypeOK
<1>1. KubeInv /\ DockerInv => ProceduresTypeOK
  BY KubeInvMeans, DockerInvMeans DEF ProceduresTypeOK
<1> QED
  BY <1>1, BackendsInvariant, PTL

\* A procedure never has two workloads that may run, on either backend: what
\* createOrReuseProcedureContainer and createOrReuseProcedureJob find or
\* create is alone, over retries, stops, removed commands and restarts of the
\* daemon, unless a call outlived a stop.  And while a restart command that
\* the Kubernetes backend resumed waits for a procedure, this one or a later
\* one, nothing of other procedures that was active when it was resumed still
\* runs, apart from a job whose pod did not start and whose failure is ignored.
THEOREM WorkloadsAlone == Spec => []OneWorkload
<1>1. KubeInv /\ DockerInv => OneWorkload
  BY KubeInvMeans, DockerInvMeans DEF OneWorkload
<1> QED
  BY <1>1, BackendsInvariant, PTL

\* While a call waits for its container, the maps of the Docker backend lead
\* console input and signals to that container, although calls, goroutines and
\* stops all write the entries of a procedure by name.
THEOREM InputFindsItsContainer == Spec => []InputReaches
<1>1. DockerInv => InputReaches
  BY DockerInvMeans
<1> QED
  BY <1>1, BackendsInvariant, PTL

\* While a call of the Kubernetes backend is at a procedure, the Service of
\* the command's port selects that procedure (ensureExpectedServices).
THEOREM PortsFollowProcedures == Spec => []PortFollows
<1>1. KubeInv => PortFollows
  BY KubeInvMeans
<1> QED
  BY <1>1, BackendsInvariant, PTL

\* A call goes on past a procedure only when that is done: on Kubernetes its
\* job, which is polled by name and remembered by name, has run, or is gone
\* and another of the name has; on Docker its container has ended, and what a
\* signal was for no longer runs.
THEOREM DoneIsHonest == Spec => DoneHonest
<1>1. ASSUME KubeInv, [Next]_vars
      PROVE  [\A k \in Calls : Passes(k) =>
                 \/ <<call[k].name, call[k].uid>> \in ran
                 \/ Current(k) \in Ignored
                 \/ /\ \E u \in 1..MaxJobs : <<call[k].name, u>> \in ran
                    /\ \A j \in jobs : j.uid # call[k].uid]_kubeVars
  BY <1>1, OneBackendSteps, KubePass
<1>2. ASSUME DockerInv, [Next]_vars
      PROVE  [\A k \in Runs :
                 run[k].pc \in {"next", "wait"} /\ run'[k].idx = run[k].idx + 1 =>
                    IF Kind[Doing(k)] = "signal"
                    THEN \A c \in containers' : c.proc = Target[Doing(k)] /\ c.state = "running" =>
                            c.proc[1] \in left \/ (\E d \in containers : d.proc = c.proc /\ d.id \in stray)
                    ELSE \/ \E c \in Object(run[k].id) :
                               c.state = "exited0" \/ (Failed(c) /\ Doing(k) \in Ignored)
                         \/ Persistent(k)]_dockerVars
  BY <1>2, OneBackendSteps, DockerPass
<1> QED
  BY <1>1, <1>2, BackendsInvariant, PTL DEF Spec, DoneHonest, DoneMeansRan, PassedMeansDone
=============================================================================
