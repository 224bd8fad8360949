------------------------- MODULE BrowserManagerProofs -------------------------
(***************************************************************************)
(* What holds of the browsers for any number of threads, agents and        *)
(* processes: with status requests among them, and without.                *)
(***************************************************************************)
EXTENDS BrowserManager, TLAPS

Seeing == {"check", "drop", "term", "wait", "del"}
Perished == {"killed", "dead"}

(* What a thread is at each of its steps, told from the thread alone       *)
ThreadOK(t, q) ==
    /\ q \in Thread
    /\ t = Sweeper => /\ q.op = NONE
                      /\ q.pc \notin {"get", "check", "drop", "launch"}
    /\ t # Sweeper => /\ q.pc \notin {"scan", "pick"}
                      /\ q.op \in Ops \union {NONE}
                      /\ q.pc # "idle" => q.op \in Ops /\ q.agent \in Agents
                      /\ q.op = "status" => q.pc \in {"get", "check", "drop"}
    /\ q.pc \in Seeing => q.agent \in Agents /\ q.pid \in Pids

(* A thread inside the with block                                          *)
Inside(q) == q.pc \notin {"idle", "lock"} /\ q.op # "status"

(* What a thread has seen of its agent's process and entry                 *)
SightOK(q) ==
    /\ q.pc \in Seeing => st[q.pid] # "unborn" /\ owner[q.pid] = q.agent
    /\ q.pc = "drop" => st[q.pid] = "dead"
    /\ q.pc = "wait" => st[q.pid] # "up"
    /\ q.pc = "del" => st[q.pid] \in Perished
    /\ q.pc = "launch" => registry[q.agent] = NONE

ThreadsOK == \A t \in Threads : ThreadOK(t, thr[t])
LockExcludes == \A t \in Threads : Inside(thr[t]) => lock = t
SightsOK == \A t \in Threads : SightOK(thr[t])
EntriesOK ==
    \A a \in Agents : registry[a] # NONE =>
        st[registry[a].pid] # "unborn" /\ owner[registry[a].pid] = a
BornIsOwned == \A p \in Pids : st[p] # "unborn" => owner[p] \in Agents
ExpiredStayIdle ==
    thr[Sweeper].pc \in {"pick", "term", "wait", "del"} =>
        \A a \in expired : registry[a] = NONE \/ registry[a].idle

(* The inductive invariant, whatever requests arrive                       *)
IInv ==
    /\ TypeOK
    /\ ThreadsOK /\ LockExcludes /\ SightsOK
    /\ EntriesOK /\ BornIsOwned /\ ExpiredStayIdle
    /\ FirstBrowserNeverLost

(* What is added to it when every request takes the lock                   *)
AllLock == "status" \notin Ops
Known(p) == registry[owner[p]] # NONE /\ registry[owner[p]].pid = p
AllKnown == \A p \in Pids : st[p] \in {"up", "term"} => Known(p)
SeesEntry(q) ==
    q.pc \in Seeing => registry[q.agent] # NONE /\ registry[q.agent].pid = q.pid
AllSeeEntries == \A t \in Threads : SeesEntry(thr[t])
LockedInv == AllKnown /\ AllSeeEntries

Sweeping == {"pick", "term", "wait", "del"}

(* TypeOK by its parts, and what every step respects                       *)
TablesOK ==
    /\ registry \in [Agents -> Entry \union {NONE}]
    /\ expired \subseteq Agents
    /\ st \in [Pids -> ProcState]
    /\ owner \in [Pids -> Agents \union {NONE}]

ProcessesLive ==
    \A p \in Pids :
        /\ st[p] # "unborn" => st'[p] # "unborn" /\ owner'[p] = owner[p]
        /\ st[p] # "up" /\ st[p] # "unborn" => st'[p] # "up"
        /\ st[p] \in Perished => st'[p] \in Perished
        /\ st[p] = "dead" => st'[p] = "dead"

LockStep(t) ==
    /\ \/ lock' = lock
       \/ lock = NONE /\ lock' = t
       \/ lock = t /\ lock' = NONE
    /\ lock' = t => thr'[t].pc \notin {"idle", "lock"}
    /\ Inside(thr'[t]) => lock' = t

LEMMA InitIInv == Init => IInv
  <1> SUFFICES ASSUME Init PROVE IInv
    OBVIOUS
  <1>1. \A t \in Threads : thr[t] = Idle
    BY DEF Init
  <1>2. Idle \in Thread
    BY DEF Idle, Thread
  <1>3. TypeOK
    BY <1>2 DEF Init, TypeOK, ProcState
  <1>4. Sweeper \in Threads
    BY DEF Threads
  <1>5. ThreadsOK
    BY <1>1, <1>2, NamesAssumption DEF ThreadsOK, ThreadOK, Idle, Seeing
  <1>6. LockExcludes /\ SightsOK
    BY <1>1 DEF LockExcludes, Inside, SightsOK, SightOK, Idle, Seeing
  <1>7. EntriesOK /\ BornIsOwned /\ ExpiredStayIdle /\ FirstBrowserNeverLost
    BY <1>1, <1>4 DEF Init, EntriesOK, BornIsOwned, ExpiredStayIdle, FirstBrowserNeverLost, Idle
  <1> QED
    BY <1>3, <1>5, <1>6, <1>7 DEF IInv

(* A step of one thread: the others keep what they are and what they saw,  *)
(* for nothing that dies comes back and only the lock's holder adds an     *)
(* entry.                                                                  *)
LEMMA OneThread ==
    ASSUME IInv, NEW t \in Threads, thr' = [thr EXCEPT ![t] = thr'[t]], TablesOK',
           ThreadOK(t, thr'[t]), LockStep(t), ProcessesLive,
           \/ SightOK(thr[t])' /\ \A a \in Agents : registry[a] = NONE => registry'[a] = NONE
           \/ SightOK(thr[t])' /\ lock = t
           \/ thr' = thr /\ \A a \in Agents : registry[a] = NONE => registry'[a] = NONE
    PROVE  TypeOK' /\ ThreadsOK' /\ LockExcludes' /\ SightsOK'
  <1> USE DEF IInv
  <1>1. thr \in [Threads -> Thread] /\ thr' \in [Threads -> Thread]
    BY DEF TypeOK, ThreadOK
  <1>2. \A s \in Threads : s # t => thr'[s] = thr[s]
    BY <1>1
  <1>3. NONE \notin Threads
    BY NamesAssumption DEF Threads
  <1>4. lock' \in {s \in Threads : thr'[s].pc \notin {"idle", "lock"}} \union {NONE}
    BY <1>2, <1>3 DEF TypeOK, LockStep
  <1>5. TypeOK'
    BY <1>1, <1>4 DEF TypeOK, TablesOK
  <1>6. ThreadsOK'
    BY <1>2 DEF ThreadsOK
  <1>7. LockExcludes'
    BY <1>2, <1>3 DEF LockExcludes, LockStep
  <1>8. ASSUME NEW s \in Threads, thr'[s] = thr[s],
               \/ s # t
               \/ thr' = thr /\ \A a \in Agents : registry[a] = NONE => registry'[a] = NONE
        PROVE  SightOK(thr[s])'
    <2> DEFINE q == thr[s]
    <2>1. ThreadOK(s, q) /\ SightOK(q)
      BY DEF ThreadsOK, SightsOK
    <2>2. q.pc \in Seeing =>
              q.pid \in Pids /\ st'[q.pid] # "unborn" /\ owner'[q.pid] = q.agent
      BY <2>1 DEF ThreadOK, SightOK, ProcessesLive
    <2>3. /\ q.pc = "drop" => st'[q.pid] = "dead"
          /\ q.pc = "wait" => st'[q.pid] # "up"
          /\ q.pc = "del" => st'[q.pid] \in Perished
      BY <2>1, <2>2 DEF SightOK, ProcessesLive, Seeing
    <2>4. q.pc = "launch" => registry'[q.agent] = NONE
      <3> SUFFICES ASSUME q.pc = "launch" PROVE registry'[q.agent] = NONE
        OBVIOUS
      <3>1. q.agent \in Agents /\ Inside(q) /\ registry[q.agent] = NONE
        BY <2>1 DEF ThreadOK, SightOK, Inside
      <3>2. lock = s
        BY <3>1 DEF LockExcludes
      <3> QED
        BY <1>8, <3>1, <3>2
    <2> QED
      BY <1>8, <2>2, <2>3, <2>4 DEF SightOK
  <1>9. SightOK(thr[t])'
    BY <1>8
  <1>10. ASSUME NEW s \in Threads PROVE SightOK(thr[s])'
    <2>1. CASE s = t
      BY <1>9, <2>1 DEF SightOK
    <2>2. CASE s # t
      BY <1>2, <1>8, <2>2
    <2> QED
      BY <2>1, <2>2
  <1>11. SightsOK'
    BY <1>10 DEF SightsOK
  <1> QED
    BY <1>5, <1>6, <1>7, <1>11

(* Entries that no step touches stay right while processes only go on      *)
LEMMA SameEntries ==
    ASSUME IInv, TypeOK', UNCHANGED <<registry, owner>>, ProcessesLive,
           \A p \in Pids : st[p] = "unborn" => st'[p] = "unborn"
    PROVE  EntriesOK' /\ BornIsOwned' /\ FirstBrowserNeverLost'
  <1> USE DEF IInv
  <1>1. \A a \in Agents : registry[a] # NONE => registry[a].pid \in Pids
    BY DEF TypeOK, Entry
  <1>2. EntriesOK'
    BY <1>1 DEF EntriesOK, ProcessesLive
  <1>3. BornIsOwned'
    BY DEF BornIsOwned
  <1>4. ASSUME NEW p \in Pids, st'[p] \in {"up", "term"}
        PROVE  \/ registry[owner[p]] # NONE /\ registry[owner[p]].pid = p
               \/ \E q \in Pids \ {p} : owner[q] = owner[p] /\ st'[q] \in Perished
    <2>1. st[p] \in {"up", "term"}
      BY <1>4 DEF ProcessesLive, TypeOK, ProcState, Running, Perished
    <2> QED
      BY <2>1 DEF FirstBrowserNeverLost, ProcessesLive, Perished
  <1> QED
    BY <1>2, <1>3, <1>4 DEF FirstBrowserNeverLost, Perished

(* An entry that goes is of an agent one of whose processes is gone        *)
LEMMA OneEntryGoes ==
    ASSUME IInv, TypeOK', NEW a \in Agents, registry' = [registry EXCEPT ![a] = NONE],
           UNCHANGED <<st, owner>>, \E q \in Pids : owner[q] = a /\ st[q] \in Perished
    PROVE  EntriesOK' /\ BornIsOwned' /\ FirstBrowserNeverLost'
  <1> USE DEF IInv
  <1>1. registry \in [Agents -> Entry \union {NONE}]
    BY DEF TypeOK
  <1>2. EntriesOK'
    BY <1>1 DEF EntriesOK
  <1>3. BornIsOwned'
    BY DEF BornIsOwned
  <1>4. ASSUME NEW p \in Pids, st[p] \in {"up", "term"}
        PROVE  \/ registry'[owner[p]] # NONE /\ registry'[owner[p]].pid = p
               \/ \E q \in Pids \ {p} : owner[q] = owner[p] /\ st[q] \in Perished
    <2>1. owner[p] \in Agents
      BY <1>4 DEF BornIsOwned
    <2>2. CASE owner[p] = a
      BY <1>4, <2>2 DEF Perished
    <2>3. CASE owner[p] # a
      BY <1>1, <1>4, <2>1, <2>3 DEF FirstBrowserNeverLost, Perished
    <2> QED
      BY <2>2, <2>3
  <1> QED
    BY <1>2, <1>3, <1>4 DEF FirstBrowserNeverLost, Perished

(* A thread other than the sweep adds or refreshes an entry only while the *)
(* sweep is not at work, so the sweep's list stays good                    *)
LEMMA SameList ==
    ASSUME IInv, expired' \subseteq expired,
           thr'[Sweeper].pc \in Sweeping => thr[Sweeper].pc \in Sweeping,
           \/ lock \in Callers
           \/ \A a \in Agents : registry'[a] = registry[a] \/ registry'[a] = NONE
                                 \/ registry'[a].idle
    PROVE  ExpiredStayIdle'
  <1> USE DEF IInv
  <1>1. Sweeper \in Threads /\ Sweeper \notin Callers
    BY NamesAssumption DEF Threads
  <1>2. thr[Sweeper].pc \in Sweeping => lock = Sweeper
    BY <1>1, NamesAssumption DEF LockExcludes, Inside, ThreadsOK, ThreadOK, Sweeping
  <1>3. expired \subseteq Agents
    BY DEF TypeOK
  <1> QED
    BY <1>1, <1>2, <1>3 DEF ExpiredStayIdle, Sweeping

(* A thread that only changes itself, its lock and the sweep's list        *)
LEMMA OnlyThread ==
    ASSUME IInv, NEW t \in Threads, thr' = [thr EXCEPT ![t] = thr'[t]],
           ThreadOK(t, thr'[t]), LockStep(t), SightOK(thr[t])',
           UNCHANGED <<registry, expired, st, owner>>,
           t = Sweeper /\ thr'[t].pc \in Sweeping => thr[t].pc \in Sweeping
    PROVE  IInv'
  <1>1. ProcessesLive /\ TablesOK'
    BY DEF IInv, TypeOK, TablesOK, ProcessesLive
  <1>2. TypeOK' /\ ThreadsOK' /\ LockExcludes' /\ SightsOK'
    BY <1>1, OneThread
  <1>3. EntriesOK' /\ BornIsOwned' /\ FirstBrowserNeverLost'
    BY <1>1, <1>2, SameEntries
  <1>4. Sweeper \in Threads /\ thr \in [Threads -> Thread]
    BY DEF Threads, IInv, TypeOK
  <1>5. ExpiredStayIdle'
    BY <1>4, SameList
  <1> QED
    BY <1>2, <1>3, <1>5 DEF IInv

(* What is known of a thread at a step: cited by every action              *)
LEMMA ThreadFacts ==
    ASSUME IInv, NEW t \in Threads
    PROVE  /\ thr \in [Threads -> Thread] /\ thr[t] \in Thread
           /\ ThreadOK(t, thr[t]) /\ SightOK(thr[t])
           /\ Inside(thr[t]) => lock = t
           /\ lock = t => thr[t].pc \notin {"idle", "lock"}
           /\ registry \in [Agents -> Entry \union {NONE}]
           /\ expired \subseteq Agents
           /\ st \in [Pids -> ProcState] /\ owner \in [Pids -> Agents \union {NONE}]
           /\ t # NONE /\ "status" # NONE /\ "start" # NONE /\ "stop" # NONE
           /\ t \in Callers <=> t # Sweeper
  BY NamesAssumption
     DEF IInv, TypeOK, ThreadsOK, SightsOK, LockExcludes, Threads

LEMMA FinishMoves ==
    ASSUME IInv, NEW t \in Threads, Finish(t)
    PROVE  /\ thr' = [thr EXCEPT ![t] = thr'[t]] /\ thr'[t] = Idle
           /\ ThreadOK(t, thr'[t]) /\ LockStep(t) /\ SightOK(thr[t])'
  <1>1. thr'[t] = Idle /\ thr' = [thr EXCEPT ![t] = thr'[t]] /\ lock' # t
    BY ThreadFacts DEF Finish
  <1>2. ThreadOK(t, Idle)
    BY ThreadFacts DEF ThreadOK, Idle, Thread, Seeing
  <1>3. LockStep(t)
    BY <1>1 DEF LockStep, Finish, Inside, Idle
  <1>4. SightOK(thr[t])'
    BY <1>1 DEF SightOK, Idle, Seeing
  <1> QED
    BY <1>1, <1>2, <1>3, <1>4

LEMMA ReceiveIInv ==
    ASSUME IInv, NEW t \in Callers, NEW op \in Ops, NEW a \in Agents, Receive(t, op, a)
    PROVE  IInv'
  <1> t \in Threads
    BY DEF Threads
  <1>1. /\ thr' = [thr EXCEPT ![t] = thr'[t]] /\ UNCHANGED lock
        /\ thr'[t] = [pc |-> IF op = "status" THEN "get" ELSE "lock",
                      op |-> op, agent |-> a, pid |-> NONE]
        /\ lock # t
    BY ThreadFacts DEF Receive, At
  <1>2. ThreadOK(t, thr'[t])
    BY <1>1, ThreadFacts, OpsAssumption DEF ThreadOK, Thread, Seeing
  <1>3. LockStep(t)
    BY <1>1 DEF LockStep, Inside
  <1>4. SightOK(thr[t])'
    BY <1>1 DEF SightOK, Seeing
  <1> QED
    BY <1>1, <1>2, <1>3, <1>4, ThreadFacts, OnlyThread DEF Receive

LEMMA AcquireIInv ==
    ASSUME IInv, NEW t \in Threads, Acquire(t)
    PROVE  IInv'
  <1> DEFINE pc == IF t = Sweeper THEN "scan" ELSE "get"
  <1>1. /\ thr' = [thr EXCEPT ![t] = thr'[t]] /\ lock = NONE /\ lock' = t
        /\ thr'[t] = [thr[t] EXCEPT !.pc = pc] /\ thr[t].pc = "lock"
    BY ThreadFacts DEF Acquire, Goto, At
  <1>2. ThreadOK(t, thr'[t]) /\ thr'[t].pc = pc
    BY <1>1, ThreadFacts DEF ThreadOK, Thread, Seeing
  <1>3. LockStep(t)
    BY <1>1, <1>2 DEF LockStep
  <1>4. SightOK(thr[t])'
    BY <1>2 DEF SightOK, Seeing
  <1> QED
    BY <1>1, <1>2, <1>3, <1>4, OnlyThread DEF Acquire, Sweeping

(* Inside the handler the lock stays as it is                              *)
LEMMA AdvanceStep ==
    ASSUME IInv, NEW t \in Threads, UNCHANGED lock, thr'[t].op = thr[t].op,
           thr[t].pc \notin {"idle", "lock"}, thr'[t].pc \notin {"idle", "lock"}
    PROVE  LockStep(t)
  BY ThreadFacts DEF LockStep, Inside

(* An entry that is refreshed or ages keeps its process                    *)
LEMMA SamePids ==
    ASSUME IInv, UNCHANGED <<st, owner>>,
           \A a \in Agents : /\ registry[a] = NONE => registry'[a] = NONE
                             /\ registry[a] # NONE => /\ registry'[a] # NONE
                                                      /\ registry'[a].pid = registry[a].pid
    PROVE  EntriesOK' /\ BornIsOwned' /\ FirstBrowserNeverLost'
  <1> USE DEF IInv
  <1>1. EntriesOK'
    BY DEF EntriesOK
  <1>3. BornIsOwned'
    BY DEF BornIsOwned
  <1>2. FirstBrowserNeverLost'
    BY DEF FirstBrowserNeverLost, BornIsOwned
  <1> QED
    BY <1>1, <1>2, <1>3

LEMMA GetIInv ==
    ASSUME IInv, NEW t \in Threads, Get(t)
    PROVE  IInv'
  <1> DEFINE entry == registry[thr[t].agent]
  <1>1. t # Sweeper /\ t \in Callers /\ thr[t].pc = "get" /\ thr[t].agent \in Agents
    BY ThreadFacts DEF Get, At, ThreadOK
  <1>2. UNCHANGED <<registry, expired, st, owner>>
    BY DEF Get
  <1>3. CASE Finish(t)
    BY <1>1, <1>2, <1>3, FinishMoves, OnlyThread
  <1>4. CASE entry = NONE /\ thr[t].op = "start" /\ Goto(t, "launch") /\ UNCHANGED lock
    <2>1. thr' = [thr EXCEPT ![t] = thr'[t]] /\ thr'[t] = [thr[t] EXCEPT !.pc = "launch"]
      BY <1>4, ThreadFacts DEF Goto
    <2>2. /\ ThreadOK(t, thr'[t]) /\ thr'[t].pc = "launch" /\ thr'[t].op = thr[t].op
          /\ thr'[t].agent = thr[t].agent
      BY <1>1, <1>4, <2>1, ThreadFacts DEF ThreadOK, Thread, Seeing
    <2>3. SightOK(thr[t])'
      BY <1>2, <1>4, <2>2 DEF SightOK, Seeing
    <2> QED
      BY <1>1, <1>2, <1>4, <2>1, <2>2, <2>3, AdvanceStep, OnlyThread
  <1>5. CASE /\ entry # NONE /\ UNCHANGED lock
             /\ thr' = [thr EXCEPT ![t] = [@ EXCEPT !.pid = entry.pid, !.pc = "check"]]
    <2>1. entry \in Entry /\ st[entry.pid] # "unborn" /\ owner[entry.pid] = thr[t].agent
      BY <1>1, <1>5, ThreadFacts DEF IInv, EntriesOK
    <2>2. /\ thr' = [thr EXCEPT ![t] = thr'[t]]
          /\ thr'[t] = [thr[t] EXCEPT !.pid = entry.pid, !.pc = "check"]
      BY <1>5, ThreadFacts
    <2>3. /\ ThreadOK(t, thr'[t]) /\ thr'[t].pc = "check" /\ thr'[t].op = thr[t].op
          /\ thr'[t].agent = thr[t].agent /\ thr'[t].pid = entry.pid
      BY <1>1, <2>1, <2>2, ThreadFacts DEF ThreadOK, Thread, Seeing, Entry
    <2>4. SightOK(thr[t])'
      BY <1>2, <2>1, <2>3 DEF SightOK, Seeing
    <2> QED
      BY <1>1, <1>2, <1>5, <2>2, <2>3, <2>4, AdvanceStep, OnlyThread
  <1> QED
    BY <1>3, <1>4, <1>5 DEF Get

LEMMA CheckIInv ==
    ASSUME IInv, NEW t \in Threads, Check(t)
    PROVE  IInv'
  <1> DEFINE a == thr[t].agent
             p == thr[t].pid
  <1>1. /\ t # Sweeper /\ t \in Callers /\ thr[t].pc = "check" /\ a \in Agents /\ p \in Pids
        /\ st[p] # "unborn" /\ owner[p] = a
    BY ThreadFacts DEF Check, At, ThreadOK, SightOK, Seeing
  <1>2. UNCHANGED <<expired, st, owner>>
    BY DEF Check
  <1>3. CASE st[p] \notin Running /\ Goto(t, "drop") /\ UNCHANGED <<registry, lock>>
    <2>1. thr' = [thr EXCEPT ![t] = thr'[t]] /\ thr'[t] = [thr[t] EXCEPT !.pc = "drop"]
      BY <1>3, ThreadFacts DEF Goto
    <2>2. /\ ThreadOK(t, thr'[t]) /\ thr'[t].pc = "drop" /\ thr'[t].op = thr[t].op
          /\ thr'[t].agent = a /\ thr'[t].pid = p
      BY <1>1, <2>1, ThreadFacts DEF ThreadOK, Thread, Seeing
    <2>3. st[p] = "dead"
      BY <1>1, <1>3, ThreadFacts DEF ProcState, Running
    <2>4. SightOK(thr[t])'
      BY <1>1, <1>2, <2>2, <2>3 DEF SightOK, Seeing
    <2> QED
      BY <1>1, <1>2, <1>3, <2>1, <2>2, <2>4, AdvanceStep, OnlyThread
  <1>4. CASE /\ st[p] \in Running /\ thr[t].op = "start" /\ Finish(t)
             /\ registry' = IF registry[a] # NONE /\ registry[a].pid = p
                            THEN [registry EXCEPT ![a] = [pid |-> p, idle |-> FALSE]]
                            ELSE registry
    <2>8. [pid |-> p, idle |-> FALSE] \in Entry
      BY <1>1 DEF Entry
    <2>9. NONE \notin Entry
      BY NamesAssumption DEF Entry
    <2>0. [pid |-> p, idle |-> FALSE] # NONE
      BY <2>8, <2>9
    <2>7. registry' \in [Agents -> Entry \union {NONE}]
      BY <1>4, <2>8, ThreadFacts
    <2>1. \A b \in Agents : /\ registry[b] = NONE => registry'[b] = NONE
                            /\ registry[b] # NONE => /\ registry'[b] # NONE
                                                     /\ registry'[b].pid = registry[b].pid
      BY <1>1, <1>4, <2>0, ThreadFacts
    <2>2. ProcessesLive /\ TablesOK'
      BY <1>2, <2>7, ThreadFacts DEF TablesOK, ProcessesLive
    <2>3. TypeOK' /\ ThreadsOK' /\ LockExcludes' /\ SightsOK'
      BY <1>4, <2>1, <2>2, FinishMoves, OneThread
    <2>4. EntriesOK' /\ BornIsOwned' /\ FirstBrowserNeverLost'
      BY <1>2, <2>1, SamePids
    <2>5. thr'[Sweeper] = thr[Sweeper] /\ lock \in Callers
      BY <1>1, <1>4, ThreadFacts DEF Finish, Inside
    <2>6. ExpiredStayIdle'
      BY <1>2, <2>5, SameList
    <2> QED
      BY <2>3, <2>4, <2>6 DEF IInv
  <1>5. CASE /\ st[p] \in Running /\ thr[t].op = "stop" /\ Goto(t, "term")
             /\ UNCHANGED <<registry, lock>>
    <2>1. thr' = [thr EXCEPT ![t] = thr'[t]] /\ thr'[t] = [thr[t] EXCEPT !.pc = "term"]
      BY <1>5, ThreadFacts DEF Goto
    <2>2. /\ ThreadOK(t, thr'[t]) /\ thr'[t].pc = "term" /\ thr'[t].op = thr[t].op
          /\ thr'[t].agent = a /\ thr'[t].pid = p
      BY <1>1, <1>5, <2>1, ThreadFacts DEF ThreadOK, Thread, Seeing
    <2>3. SightOK(thr[t])'
      BY <1>1, <1>2, <2>2 DEF SightOK, Seeing
    <2> QED
      BY <1>1, <1>2, <1>5, <2>1, <2>2, <2>3, AdvanceStep, OnlyThread
  <1>6. CASE st[p] \in Running /\ thr[t].op = "status" /\ Finish(t) /\ UNCHANGED registry
    BY <1>1, <1>2, <1>6, FinishMoves, OnlyThread
  <1> QED
    BY <1>3, <1>4, <1>5, <1>6 DEF Check

(* The two deletes: by a request of the entry of a dead process, and by    *)
(* stop or the sweep of the entry of one they have killed                  *)
LEMMA DropIInv ==
    ASSUME IInv, NEW t \in Threads, Drop(t)
    PROVE  IInv'
  <1> DEFINE a == thr[t].agent
             p == thr[t].pid
  <1>1. /\ t # Sweeper /\ t \in Callers /\ thr[t].pc = "drop" /\ a \in Agents /\ p \in Pids
        /\ st[p] = "dead" /\ owner[p] = a
    BY ThreadFacts DEF Drop, At, ThreadOK, SightOK, Seeing
  <1>2. UNCHANGED <<expired, st, owner>>
    BY DEF Drop
  <1>3. CASE registry[a] = NONE /\ Finish(t) /\ UNCHANGED registry
    BY <1>1, <1>2, <1>3, FinishMoves, OnlyThread
  <1>4. CASE /\ registry[a] # NONE /\ registry' = [registry EXCEPT ![a] = NONE]
             /\ IF thr[t].op = "start" THEN Goto(t, "launch") /\ UNCHANGED lock ELSE Finish(t)
    <2>1. /\ thr' = [thr EXCEPT ![t] = thr'[t]] /\ ThreadOK(t, thr'[t]) /\ LockStep(t)
          /\ SightOK(thr[t])'
      <3>1. CASE thr[t].op = "start"
        <4>1. thr' = [thr EXCEPT ![t] = thr'[t]] /\ thr'[t] = [thr[t] EXCEPT !.pc = "launch"]
          BY <1>4, <3>1, ThreadFacts DEF Goto
        <4>2. /\ ThreadOK(t, thr'[t]) /\ thr'[t].pc = "launch" /\ thr'[t].op = thr[t].op
              /\ thr'[t].agent = a
          BY <1>1, <3>1, <4>1, ThreadFacts DEF ThreadOK, Thread, Seeing
        <4>3. SightOK(thr[t])'
          BY <1>1, <1>4, <4>2, ThreadFacts DEF SightOK, Seeing
        <4> QED
          BY <1>1, <1>4, <3>1, <4>1, <4>2, <4>3, AdvanceStep
      <3>2. CASE thr[t].op # "start"
        BY <1>4, <3>2, FinishMoves
      <3> QED
        BY <3>1, <3>2
    <2>2. ProcessesLive /\ TablesOK'
      BY <1>2, <1>4, ThreadFacts DEF TablesOK, ProcessesLive
    <2>3. \A b \in Agents : registry'[b] = registry[b] \/ registry'[b] = NONE
      BY <1>4, ThreadFacts
    <2>4. TypeOK' /\ ThreadsOK' /\ LockExcludes' /\ SightsOK'
      BY <2>1, <2>2, <2>3, OneThread
    <2>5. EntriesOK' /\ BornIsOwned' /\ FirstBrowserNeverLost'
      BY <1>1, <1>2, <1>4, <2>4, OneEntryGoes DEF Perished
    <2>6. thr'[Sweeper] = thr[Sweeper]
      BY <1>1, <2>1, ThreadFacts DEF Threads
    <2>7. ExpiredStayIdle'
      BY <1>2, <2>3, <2>6, SameList
    <2> QED
      BY <2>4, <2>5, <2>7 DEF IInv
  <1> QED
    BY <1>3, <1>4 DEF Drop

LEMMA LaunchIInv ==
    ASSUME IInv, NEW t \in Threads, Launch(t)
    PROVE  IInv'
  <1> DEFINE a == thr[t].agent
  <1>1. /\ t # Sweeper /\ t \in Callers /\ thr[t].pc = "launch" /\ a \in Agents
        /\ registry[a] = NONE /\ lock = t
    BY ThreadFacts DEF Launch, At, ThreadOK, SightOK, Inside
  <1>2. UNCHANGED expired /\ Finish(t)
    BY DEF Launch
  <1>3. CASE UNCHANGED <<st, owner, registry>>
    BY <1>1, <1>2, <1>3, FinishMoves, OnlyThread
  <1>4. ASSUME NEW p \in Pids, st[p] = "unborn", st' = [st EXCEPT ![p] = "up"],
               owner' = [owner EXCEPT ![p] = a],
               registry' = [registry EXCEPT ![a] = [pid |-> p, idle |-> FALSE]]
        PROVE  IInv'
    <2>1. [pid |-> p, idle |-> FALSE] \in Entry /\ NONE \notin Entry
      BY NamesAssumption DEF Entry
    <2>2. TablesOK'
      BY <1>1, <1>2, <1>4, <2>1, ThreadFacts DEF TablesOK, ProcState, Running
    <2>3. \A q \in Pids : q # p => st'[q] = st[q] /\ owner'[q] = owner[q]
      BY <1>4, ThreadFacts
    <2>4. st'[p] = "up" /\ owner'[p] = a
      BY <1>4, ThreadFacts
    <2>5. ProcessesLive
      BY <1>4, <2>3, <2>4 DEF ProcessesLive, Perished
    <2>6. TypeOK' /\ ThreadsOK' /\ LockExcludes' /\ SightsOK'
      BY <1>1, <1>2, <2>2, <2>5, FinishMoves, OneThread
    <2>7. registry'[a] # NONE /\ registry'[a].pid = p
      BY <1>1, <1>4, <2>1, ThreadFacts
    <2>8. \A b \in Agents : b # a => registry'[b] = registry[b]
      BY <1>4, ThreadFacts
    <2>9. EntriesOK'
      <3> SUFFICES ASSUME NEW b \in Agents, registry'[b] # NONE
                   PROVE  st'[registry'[b].pid] # "unborn" /\ owner'[registry'[b].pid] = b
        BY DEF EntriesOK
      <3>1. CASE b = a
        BY <2>4, <2>7, <3>1
      <3>2. CASE b # a
        <4>1. registry'[b] = registry[b] /\ registry[b] \in Entry
          BY <2>8, <3>2, ThreadFacts
        <4>2. /\ registry[b].pid \in Pids /\ st[registry[b].pid] # "unborn"
              /\ owner[registry[b].pid] = b
          BY <4>1 DEF IInv, EntriesOK, Entry
        <4> QED
          BY <1>4, <2>3, <4>1, <4>2
      <3> QED
        BY <3>1, <3>2
    <2>10. BornIsOwned'
      BY <1>1, <2>3, <2>4 DEF IInv, BornIsOwned
    <2>11. FirstBrowserNeverLost'
      <3> SUFFICES ASSUME NEW q \in Pids, st'[q] \in {"up", "term"}
                   PROVE  \/ registry'[owner'[q]] # NONE /\ registry'[owner'[q]].pid = q
                          \/ \E r \in Pids \ {q} : owner'[r] = owner'[q] /\ st'[r] \in Perished
        BY DEF FirstBrowserNeverLost, Perished
      <3>1. CASE q = p
        BY <2>4, <2>7, <3>1
      <3>2. CASE q # p
        <4>1. st[q] \in {"up", "term"} /\ owner'[q] = owner[q] /\ owner[q] \in Agents
          BY <2>3, <3>2 DEF IInv, BornIsOwned
        <4>2. \/ registry[owner[q]] # NONE /\ registry[owner[q]].pid = q
              \/ \E r \in Pids \ {q} : owner[r] = owner[q] /\ st[r] \in Perished
          BY <4>1 DEF IInv, FirstBrowserNeverLost, Perished
        <4>3. CASE registry[owner[q]] # NONE /\ registry[owner[q]].pid = q
          BY <1>1, <2>8, <4>1, <4>3
        <4>4. CASE \E r \in Pids \ {q} : owner[r] = owner[q] /\ st[r] \in Perished
          BY <1>4, <2>3, <4>1, <4>4 DEF Perished
        <4> QED
          BY <4>2, <4>3, <4>4
      <3> QED
        BY <3>1, <3>2
    <2>12. thr'[Sweeper] = thr[Sweeper]
      BY <1>1, <1>2, ThreadFacts DEF Finish, Threads
    <2>13. ExpiredStayIdle'
      BY <1>1, <1>2, <2>12, SameList
    <2> QED
      BY <2>6, <2>9, <2>10, <2>11, <2>13 DEF IInv
  <1> QED
    BY <1>3, <1>4 DEF Launch

(* One process is a step nearer its end and one thread a step further      *)
LEMMA OneProcess ==
    ASSUME IInv, NEW t \in Threads, thr' = [thr EXCEPT ![t] = thr'[t]],
           ThreadOK(t, thr'[t]), LockStep(t), SightOK(thr[t])' \/ thr' = thr,
           NEW p \in Pids, st[p] # "unborn", NEW s \in {"term", "killed", "dead"},
           st' = [st EXCEPT ![p] = s],
           st[p] \in Perished => s \in Perished, st[p] = "dead" => s = "dead",
           UNCHANGED <<registry, expired, owner>>,
           t = Sweeper /\ thr'[t].pc \in Sweeping => thr[t].pc \in Sweeping
    PROVE  IInv'
  <1>1. ProcessesLive
    BY ThreadFacts DEF ProcessesLive, Perished
  <1>2. TablesOK'
    BY ThreadFacts DEF TablesOK, ProcState, Running
  <1>3. TypeOK' /\ ThreadsOK' /\ LockExcludes' /\ SightsOK'
    BY <1>1, <1>2, OneThread
  <1>4. EntriesOK' /\ BornIsOwned' /\ FirstBrowserNeverLost'
    BY <1>1, <1>3, ThreadFacts, SameEntries
  <1>5. thr'[Sweeper].pc \in Sweeping => thr[Sweeper].pc \in Sweeping
    BY ThreadFacts DEF Threads
  <1>6. ExpiredStayIdle'
    BY <1>5, SameList
  <1> QED
    BY <1>3, <1>4, <1>6 DEF IInv

LEMMA SigTermIInv ==
    ASSUME IInv, NEW t \in Threads, SigTerm(t)
    PROVE  IInv'
  <1> DEFINE p == thr[t].pid
  <1>1. thr[t].pc = "term" /\ p \in Pids /\ st[p] # "unborn" /\ owner[p] = thr[t].agent
    BY ThreadFacts DEF SigTerm, At, ThreadOK, SightOK, Seeing
  <1>2. thr' = [thr EXCEPT ![t] = thr'[t]] /\ thr'[t] = [thr[t] EXCEPT !.pc = "wait"]
    BY ThreadFacts DEF SigTerm, Goto
  <1>3. /\ ThreadOK(t, thr'[t]) /\ thr'[t].pc = "wait" /\ thr'[t].op = thr[t].op
        /\ thr'[t].agent = thr[t].agent /\ thr'[t].pid = p
    BY <1>1, <1>2, ThreadFacts DEF ThreadOK, Thread, Seeing
  <1>4. LockStep(t)
    BY <1>1, <1>3, AdvanceStep DEF SigTerm
  <1>5. CASE st[p] = "up"
    <2>1. st' = [st EXCEPT ![p] = "term"] /\ st'[p] = "term"
      BY <1>1, <1>5, ThreadFacts DEF SigTerm
    <2>2. SightOK(thr[t])'
      BY <1>1, <1>3, <2>1 DEF SightOK, SigTerm, Seeing
    <2> QED
      BY <1>1, <1>2, <1>3, <1>4, <1>5, <2>1, <2>2, OneProcess DEF SigTerm, Sweeping, Perished
  <1>6. CASE st[p] # "up"
    <2>1. UNCHANGED <<registry, expired, st, owner>>
      BY <1>6 DEF SigTerm
    <2>2. SightOK(thr[t])'
      BY <1>1, <1>3, <1>6, <2>1 DEF SightOK, Seeing
    <2> QED
      BY <1>1, <1>2, <1>3, <1>4, <2>1, <2>2, OnlyThread DEF Sweeping
  <1> QED
    BY <1>5, <1>6

LEMMA AwaitExitIInv ==
    ASSUME IInv, NEW t \in Threads, AwaitExit(t)
    PROVE  IInv'
  <1> DEFINE p == thr[t].pid
  <1>1. thr[t].pc = "wait" /\ p \in Pids /\ st[p] # "unborn" /\ owner[p] = thr[t].agent
    BY ThreadFacts DEF AwaitExit, At, ThreadOK, SightOK, Seeing
  <1>2. thr' = [thr EXCEPT ![t] = thr'[t]] /\ thr'[t] = [thr[t] EXCEPT !.pc = "del"]
    BY ThreadFacts DEF AwaitExit, Goto
  <1>3. /\ ThreadOK(t, thr'[t]) /\ thr'[t].pc = "del" /\ thr'[t].op = thr[t].op
        /\ thr'[t].agent = thr[t].agent /\ thr'[t].pid = p
    BY <1>1, <1>2, ThreadFacts DEF ThreadOK, Thread, Seeing
  <1>4. LockStep(t)
    BY <1>1, <1>3, AdvanceStep DEF AwaitExit
  <1>5. CASE st[p] \in Running
    <2>1. st' = [st EXCEPT ![p] = "killed"] /\ st'[p] = "killed"
      BY <1>1, <1>5, ThreadFacts DEF AwaitExit
    <2>2. SightOK(thr[t])'
      BY <1>1, <1>3, <2>1 DEF SightOK, AwaitExit, Seeing, Perished
    <2> QED
      BY <1>1, <1>2, <1>3, <1>4, <1>5, <2>1, <2>2, OneProcess
         DEF AwaitExit, Sweeping, Perished, Running
  <1>6. CASE st[p] \notin Running
    <2>1. UNCHANGED <<registry, expired, st, owner>> /\ st[p] = "dead"
      BY <1>1, <1>6, ThreadFacts DEF AwaitExit, ProcState
    <2>2. SightOK(thr[t])'
      BY <1>1, <1>3, <2>1 DEF SightOK, Seeing, Perished
    <2> QED
      BY <1>1, <1>2, <1>3, <1>4, <2>1, <2>2, OnlyThread DEF Sweeping
  <1> QED
    BY <1>5, <1>6

LEMMA DeleteIInv ==
    ASSUME IInv, NEW t \in Threads, Delete(t)
    PROVE  IInv'
  <1> DEFINE a == thr[t].agent
             p == thr[t].pid
  <1>1. /\ thr[t].pc = "del" /\ a \in Agents /\ p \in Pids /\ st[p] \in Perished /\ owner[p] = a
    BY ThreadFacts DEF Delete, At, ThreadOK, SightOK, Seeing
  <1>2. UNCHANGED <<expired, st, owner>>
    BY DEF Delete
  <1>3. CASE registry[a] = NONE /\ Finish(t) /\ UNCHANGED registry
    <2>1. thr'[t].pc = "idle"
      BY <1>3, FinishMoves DEF Idle
    <2> QED
      BY <1>2, <1>3, <2>1, FinishMoves, OnlyThread DEF Sweeping
  <1>4. CASE /\ registry[a] # NONE /\ registry' = [registry EXCEPT ![a] = NONE]
             /\ IF t = Sweeper THEN Goto(t, "pick") /\ UNCHANGED lock ELSE Finish(t)
    <2>1. /\ thr' = [thr EXCEPT ![t] = thr'[t]] /\ ThreadOK(t, thr'[t]) /\ LockStep(t)
          /\ SightOK(thr[t])'
      <3>1. CASE t = Sweeper
        <4>1. thr' = [thr EXCEPT ![t] = thr'[t]] /\ thr'[t] = [thr[t] EXCEPT !.pc = "pick"]
          BY <1>4, <3>1, ThreadFacts DEF Goto
        <4>2. ThreadOK(t, thr'[t]) /\ thr'[t].pc = "pick" /\ thr'[t].op = thr[t].op
          BY <3>1, <4>1, ThreadFacts DEF ThreadOK, Thread, Seeing
        <4>3. SightOK(thr[t])'
          BY <4>2 DEF SightOK, Seeing
        <4> QED
          BY <1>1, <1>4, <3>1, <4>1, <4>2, <4>3, AdvanceStep
      <3>2. CASE t # Sweeper
        BY <1>4, <3>2, FinishMoves
      <3> QED
        BY <3>1, <3>2
    <2>2. ProcessesLive /\ TablesOK'
      BY <1>2, <1>4, ThreadFacts DEF TablesOK, ProcessesLive
    <2>3. \A b \in Agents : registry'[b] = registry[b] \/ registry'[b] = NONE
      BY <1>4, ThreadFacts
    <2>4. TypeOK' /\ ThreadsOK' /\ LockExcludes' /\ SightsOK'
      BY <2>1, <2>2, <2>3, OneThread
    <2>5. EntriesOK' /\ BornIsOwned' /\ FirstBrowserNeverLost'
      BY <1>1, <1>2, <1>4, <2>4, OneEntryGoes
    <2>6. thr'[Sweeper].pc \in Sweeping => thr[Sweeper].pc \in Sweeping
      BY <1>1, <2>1, ThreadFacts DEF Threads, Sweeping
    <2>7. ExpiredStayIdle'
      BY <1>2, <2>3, <2>6, SameList
    <2> QED
      BY <2>4, <2>5, <2>7 DEF IInv
  <1> QED
    BY <1>3, <1>4 DEF Delete

------------------------------------------------------------------------------
(* The sweep *)

LEMMA WakeIInv ==
    ASSUME IInv, Wake
    PROVE  IInv'
  <1> DEFINE t == Sweeper
  <1>1. t \in Threads
    BY DEF Threads
  <1>2. thr' = [thr EXCEPT ![t] = thr'[t]] /\ thr'[t] = [thr[t] EXCEPT !.pc = "lock"]
    BY <1>1, ThreadFacts DEF Wake, Goto
  <1>3. ThreadOK(t, thr'[t]) /\ thr'[t].pc = "lock" /\ lock # t
    BY <1>1, <1>2, ThreadFacts DEF ThreadOK, Thread, Seeing, Wake, At
  <1>4. LockStep(t) /\ SightOK(thr[t])'
    BY <1>3 DEF LockStep, Inside, SightOK, Seeing, Wake
  <1> QED
    BY <1>1, <1>2, <1>3, <1>4, OnlyThread DEF Wake, Sweeping

LEMMA ScanIInv ==
    ASSUME IInv, Scan
    PROVE  IInv'
  <1> DEFINE t == Sweeper
  <1>1. t \in Threads /\ thr[t].pc = "scan"
    BY DEF Threads, Scan, At
  <1>2. UNCHANGED <<registry, st, owner>>
    BY DEF Scan
  <1>3. CASE /\ expired' = {a \in Agents : registry[a] # NONE /\ registry[a].idle}
             /\ Goto(t, "pick") /\ UNCHANGED lock
    <2>1. thr' = [thr EXCEPT ![t] = thr'[t]] /\ thr'[t] = [thr[t] EXCEPT !.pc = "pick"]
      BY <1>1, <1>3, ThreadFacts DEF Goto
    <2>2. ThreadOK(t, thr'[t]) /\ thr'[t].pc = "pick" /\ thr'[t].op = thr[t].op
      BY <1>1, <2>1, ThreadFacts DEF ThreadOK, Thread, Seeing
    <2>3. SightOK(thr[t])'
      BY <2>2 DEF SightOK, Seeing
    <2>4. LockStep(t)
      BY <1>1, <1>3, <2>2, AdvanceStep
    <2>5. ProcessesLive /\ TablesOK'
      BY <1>1, <1>2, <1>3, ThreadFacts DEF TablesOK, ProcessesLive
    <2>6. TypeOK' /\ ThreadsOK' /\ LockExcludes' /\ SightsOK'
      BY <1>1, <1>2, <2>1, <2>2, <2>3, <2>4, <2>5, OneThread
    <2>7. EntriesOK' /\ BornIsOwned' /\ FirstBrowserNeverLost'
      BY <1>2, <2>5, <2>6, SameEntries
    <2>8. ExpiredStayIdle'
      BY <1>2, <1>3 DEF ExpiredStayIdle
    <2> QED
      BY <2>6, <2>7, <2>8 DEF IInv
  <1>4. CASE Finish(t) /\ UNCHANGED expired
    <2>1. thr'[t].pc = "idle"
      BY <1>1, <1>4, FinishMoves DEF Idle
    <2> QED
      BY <1>1, <1>2, <1>4, <2>1, FinishMoves, OnlyThread DEF Sweeping
  <1> QED
    BY <1>3, <1>4 DEF Scan

LEMMA PickIInv ==
    ASSUME IInv, Pick
    PROVE  IInv'
  <1> DEFINE t == Sweeper
  <1>1. t \in Threads /\ thr[t].pc = "pick" /\ UNCHANGED <<registry, st, owner>>
    BY DEF Threads, Pick, At
  <1>2. CASE Finish(t) /\ UNCHANGED expired
    <2>1. thr'[t].pc = "idle"
      BY <1>1, <1>2, FinishMoves DEF Idle
    <2> QED
      BY <1>1, <1>2, <2>1, FinishMoves, OnlyThread DEF Sweeping
  <1>3. ASSUME NEW a \in expired, expired' = expired \ {a}, UNCHANGED lock,
               \/ UNCHANGED thr
               \/ /\ registry[a] # NONE
                  /\ thr' = [thr EXCEPT ![t] =
                                [@ EXCEPT !.agent = a, !.pid = registry[a].pid, !.pc = "term"]]
        PROVE  IInv'
    <2>1. ProcessesLive /\ TablesOK'
      BY <1>1, <1>3, ThreadFacts DEF TablesOK, ProcessesLive
    <2>2. /\ thr' = [thr EXCEPT ![t] = thr'[t]] /\ ThreadOK(t, thr'[t]) /\ LockStep(t)
          /\ SightOK(thr[t])' \/ thr' = thr
      <3>1. CASE UNCHANGED thr
        <4>1. thr'[t] = thr[t] /\ thr' = [thr EXCEPT ![t] = thr'[t]]
          BY <1>1, <3>1, ThreadFacts
        <4> QED
          BY <1>1, <1>3, <3>1, <4>1, ThreadFacts, AdvanceStep
      <3>2. CASE /\ registry[a] # NONE
                 /\ thr' = [thr EXCEPT ![t] =
                               [@ EXCEPT !.agent = a, !.pid = registry[a].pid, !.pc = "term"]]
        <4>1. /\ a \in Agents /\ registry[a] \in Entry
              /\ st[registry[a].pid] # "unborn" /\ owner[registry[a].pid] = a
          BY <1>1, <3>2, ThreadFacts DEF IInv, EntriesOK
        <4>2. /\ thr' = [thr EXCEPT ![t] = thr'[t]]
              /\ thr'[t] = [thr[t] EXCEPT !.agent = a, !.pid = registry[a].pid, !.pc = "term"]
          BY <1>1, <3>2, ThreadFacts
        <4>3. /\ ThreadOK(t, thr'[t]) /\ thr'[t].pc = "term" /\ thr'[t].op = thr[t].op
              /\ thr'[t].agent = a /\ thr'[t].pid = registry[a].pid
          BY <1>1, <4>1, <4>2, ThreadFacts DEF ThreadOK, Thread, Seeing, Entry
        <4>4. SightOK(thr[t])'
          BY <1>1, <4>1, <4>3 DEF SightOK, Seeing
        <4> QED
          BY <1>1, <1>3, <4>2, <4>3, <4>4, AdvanceStep
      <3> QED
        BY <1>3, <3>1, <3>2
    <2>3. TypeOK' /\ ThreadsOK' /\ LockExcludes' /\ SightsOK'
      BY <1>1, <2>1, <2>2, OneThread
    <2>4. EntriesOK' /\ BornIsOwned' /\ FirstBrowserNeverLost'
      BY <1>1, <2>1, <2>3, SameEntries
    <2>5. ExpiredStayIdle'
      BY <1>1, <1>3, SameList DEF Sweeping
    <2> QED
      BY <2>3, <2>4, <2>5 DEF IInv
  <1> QED
    BY <1>2, <1>3 DEF Pick

------------------------------------------------------------------------------
(* The environment, and the whole *)

LEMMA ExitIInv ==
    ASSUME IInv, NEW p \in Pids, Exit(p)
    PROVE  IInv'
  <1>1. Sweeper \in Threads
    BY DEF Threads
  <1>2. /\ thr' = [thr EXCEPT ![Sweeper] = thr'[Sweeper]] /\ thr'[Sweeper] = thr[Sweeper]
        /\ ThreadOK(Sweeper, thr'[Sweeper]) /\ LockStep(Sweeper)
    BY <1>1, ThreadFacts DEF Exit, LockStep
  <1>3. st[p] # "unborn" /\ st' = [st EXCEPT ![p] = "dead"]
    BY DEF Exit, Running
  <1> QED
    BY <1>1, <1>2, <1>3, OneProcess DEF Exit, Perished

LEMMA AgeIInv ==
    ASSUME IInv, NEW a \in Agents, Age(a)
    PROVE  IInv'
  <1> DEFINE e == [pid |-> registry[a].pid, idle |-> TRUE]
  <1>1. Sweeper \in Threads
    BY DEF Threads
  <1>2. /\ thr' = [thr EXCEPT ![Sweeper] = thr'[Sweeper]] /\ thr'[Sweeper] = thr[Sweeper]
        /\ ThreadOK(Sweeper, thr'[Sweeper]) /\ LockStep(Sweeper)
    BY <1>1, ThreadFacts DEF Age, LockStep
  <1>3. registry[a] \in Entry
    BY ThreadFacts, <1>1 DEF Age
  <1>4. e \in Entry
    BY <1>3 DEF Entry
  <1>5. NONE \notin Entry
    BY NamesAssumption DEF Entry
  <1>6. registry' \in [Agents -> Entry \union {NONE}]
    BY <1>1, <1>4, ThreadFacts DEF Age
  <1>7. \A b \in Agents : /\ registry[b] = NONE => registry'[b] = NONE
                          /\ registry[b] # NONE => /\ registry'[b] # NONE
                                                   /\ registry'[b].pid = registry[b].pid
                          /\ registry'[b] = registry[b] \/ registry'[b].idle
    BY <1>1, <1>4, <1>5, ThreadFacts DEF Age
  <1>8. ProcessesLive /\ TablesOK'
    BY <1>1, <1>6, ThreadFacts DEF TablesOK, ProcessesLive, Age
  <1>9. TypeOK' /\ ThreadsOK' /\ LockExcludes' /\ SightsOK'
    BY <1>1, <1>2, <1>7, <1>8, OneThread DEF Age
  <1>10. EntriesOK' /\ BornIsOwned' /\ FirstBrowserNeverLost'
    BY <1>7, SamePids DEF Age
  <1>11. ExpiredStayIdle'
    BY <1>2, <1>7, SameList DEF Age
  <1> QED
    BY <1>9, <1>10, <1>11 DEF IInv

LEMMA StepIInv == IInv /\ [Next]_vars => IInv'
  <1> SUFFICES ASSUME IInv, [Next]_vars PROVE IInv'
    OBVIOUS
  <1>1. ASSUME NEW t \in Callers, NEW op \in Ops, NEW a \in Agents, Receive(t, op, a)
        PROVE  IInv'
    BY <1>1, ReceiveIInv
  <1>2. ASSUME NEW t \in Threads, Step(t) PROVE IInv'
    BY <1>2, AcquireIInv, GetIInv, CheckIInv, DropIInv, LaunchIInv, SigTermIInv, AwaitExitIInv,
       DeleteIInv DEF Step
  <1>3. CASE Sweep
    BY <1>3, WakeIInv, ScanIInv, PickIInv DEF Sweep
  <1>4. ASSUME NEW p \in Pids, Exit(p) PROVE IInv'
    BY <1>4, ExitIInv
  <1>5. ASSUME NEW a \in Agents, Age(a) PROVE IInv'
    BY <1>5, AgeIInv
  <1>6. CASE UNCHANGED vars
    BY <1>6
       DEF vars, IInv, TypeOK, ThreadsOK, LockExcludes, SightsOK, SightOK, EntriesOK, BornIsOwned,
           ExpiredStayIdle, FirstBrowserNeverLost
  <1> QED
    BY <1>1, <1>2, <1>3, <1>4, <1>5, <1>6 DEF Next

------------------------------------------------------------------------------
(* When every request takes the lock *)

LEMMA InitLockedInv == Init => LockedInv
  <1> SUFFICES ASSUME Init PROVE LockedInv
    OBVIOUS
  <1>1. AllKnown
    BY DEF Init, AllKnown
  <1>2. AllSeeEntries
    BY DEF Init, AllSeeEntries, SeesEntry, Seeing, Idle
  <1> QED
    BY <1>1, <1>2 DEF LockedInv

(* What the two moves of a thread make of it                               *)
LEMMA GotoMoves ==
    ASSUME IInv, NEW t \in Threads, NEW pc \in {"pick", "launch", "lock", "get", "scan"},
           Goto(t, pc)
    PROVE  thr' = [thr EXCEPT ![t] = thr'[t]] /\ thr'[t].pc = pc
  <1>1. thr' = [thr EXCEPT ![t] = thr'[t]] /\ thr'[t] = [thr[t] EXCEPT !.pc = pc]
    BY ThreadFacts DEF Goto
  <1> QED
    BY <1>1, ThreadFacts DEF Thread

LEMMA HoldsLock ==
    ASSUME AllLock, IInv, NEW t \in Threads, thr[t].pc \notin {"idle", "lock"}
    PROVE  lock = t
  BY ThreadFacts DEF AllLock, Inside, ThreadOK

(* While one thread takes a step, the others that have seen an entry have   *)
(* only seen one that nobody else can touch.                               *)
LEMMA OthersSee ==
    ASSUME AllLock, IInv, LockedInv, NEW t \in Threads, thr' = [thr EXCEPT ![t] = thr'[t]],
           UNCHANGED registry \/ lock = t, SeesEntry(thr[t])'
    PROVE  AllSeeEntries'
  <1>1. ASSUME NEW s \in Threads, s # t PROVE SeesEntry(thr[s])'
    <2>1. thr'[s] = thr[s] /\ SeesEntry(thr[s])
      BY <1>1, ThreadFacts DEF LockedInv, AllSeeEntries
    <2>2. thr[s].pc \in Seeing => lock = s
      BY HoldsLock DEF Seeing
    <2> QED
      BY <1>1, <2>1, <2>2 DEF SeesEntry
  <1> QED
    BY <1>1 DEF AllSeeEntries, SeesEntry

(* Processes that only go on, with entries that keep their processes, stay *)
(* known.                                                                  *)
LEMMA StayKnown ==
    ASSUME IInv, LockedInv, UNCHANGED owner,
           \A p \in Pids : st'[p] \in {"up", "term"} => st[p] \in {"up", "term"},
           \A a \in Agents : registry[a] # NONE =>
               registry'[a] # NONE /\ registry'[a].pid = registry[a].pid
    PROVE  AllKnown'
  <1> SUFFICES ASSUME NEW p \in Pids, st'[p] \in {"up", "term"} PROVE Known(p)'
    BY DEF AllKnown
  <1>1. Known(p) /\ owner[p] \in Agents
    BY DEF LockedInv, AllKnown, IInv, BornIsOwned
  <1> QED
    BY <1>1 DEF Known

(* The entry of a process that is gone can go: it is the agent's only one  *)
LEMMA GoneIsForgotten ==
    ASSUME IInv, LockedInv, UNCHANGED <<st, owner>>, NEW a \in Agents,
           st[registry[a].pid] \in Perished, registry' = [registry EXCEPT ![a] = NONE]
    PROVE  AllKnown'
  <1> SUFFICES ASSUME NEW p \in Pids, st[p] \in {"up", "term"} PROVE Known(p)'
    BY DEF AllKnown
  <1>1. Known(p) /\ owner[p] \in Agents
    BY DEF LockedInv, AllKnown, IInv, BornIsOwned
  <1>2. owner[p] # a
    BY <1>1 DEF Known, Perished
  <1> QED
    BY <1>1, <1>2 DEF Known, IInv, TypeOK

(* What the sweep picks: the entry as it stands                            *)
LEMMA PickMoves ==
    ASSUME IInv, Pick
    PROVE  \/ thr'[Sweeper].pc \in {"idle", "pick"}
           \/ \E a \in expired : /\ registry[a] # NONE
                                 /\ thr'[Sweeper].agent = a
                                 /\ thr'[Sweeper].pid = registry[a].pid
  <1>1. Sweeper \in Threads /\ thr[Sweeper].pc = "pick"
    BY DEF Threads, Pick, At
  <1>2. CASE Finish(Sweeper)
    BY <1>1, <1>2, FinishMoves DEF Idle
  <1>3. ASSUME NEW a \in expired, registry[a] # NONE,
               thr' = [thr EXCEPT ![Sweeper] =
                          [@ EXCEPT !.agent = a, !.pid = registry[a].pid, !.pc = "term"]]
        PROVE  thr'[Sweeper].agent = a /\ thr'[Sweeper].pid = registry[a].pid
    <2>1. thr'[Sweeper] =
              [thr[Sweeper] EXCEPT !.agent = a, !.pid = registry[a].pid, !.pc = "term"]
      BY <1>1, <1>3, ThreadFacts
    <2> QED
      BY <1>1, <2>1, ThreadFacts DEF Thread
  <1>4. CASE UNCHANGED thr
    BY <1>1, <1>4
  <1> QED
    BY <1>2, <1>3, <1>4 DEF Pick

LEMMA StepLockedInv ==
    ASSUME AllLock, IInv, LockedInv, [Next]_vars
    PROVE  LockedInv'
  <1>1. ASSUME NEW t \in Callers, NEW op \in Ops, NEW a \in Agents, Receive(t, op, a)
        PROVE  LockedInv'
    <2>1. /\ t \in Threads /\ UNCHANGED <<registry, st, owner>>
          /\ thr' = [thr EXCEPT ![t] = thr'[t]] /\ thr'[t].pc \in {"get", "lock"}
      BY <1>1, ThreadFacts DEF Receive, Threads
    <2>2. SeesEntry(thr[t])'
      BY <2>1 DEF SeesEntry, Seeing
    <2> QED
      BY <2>1, <2>2, OthersSee, StayKnown DEF LockedInv
  <1>2. ASSUME NEW t \in Threads, Acquire(t) PROVE LockedInv'
    <2>1. /\ UNCHANGED <<registry, st, owner>>
          /\ thr' = [thr EXCEPT ![t] = thr'[t]] /\ thr'[t].pc \in {"get", "scan"}
      BY <1>2, GotoMoves DEF Acquire
    <2>2. SeesEntry(thr[t])'
      BY <2>1 DEF SeesEntry, Seeing
    <2> QED
      BY <2>1, <2>2, OthersSee, StayKnown DEF LockedInv
  <1>3. ASSUME NEW t \in Threads, Get(t) PROVE LockedInv'
    <2> DEFINE entry == registry[thr[t].agent]
    <2>1. UNCHANGED <<registry, st, owner>> /\ thr' = [thr EXCEPT ![t] = thr'[t]]
      BY <1>3, ThreadFacts DEF Get, Goto, Finish
    <2>2. \/ thr'[t].pc \in {"idle", "launch"}
          \/ entry # NONE /\ thr'[t].agent = thr[t].agent /\ thr'[t].pid = entry.pid
      <3>1. CASE Finish(t)
        BY <3>1, FinishMoves DEF Idle
      <3>2. CASE Goto(t, "launch")
        BY <3>2, GotoMoves
      <3>3. CASE /\ entry # NONE
                 /\ thr' = [thr EXCEPT ![t] = [@ EXCEPT !.pid = entry.pid, !.pc = "check"]]
        <4>1. thr'[t] = [thr[t] EXCEPT !.pid = entry.pid, !.pc = "check"]
          BY <3>3, ThreadFacts
        <4> QED
          BY <3>3, <4>1, ThreadFacts DEF Thread
      <3> QED
        BY <1>3, <3>1, <3>2, <3>3 DEF Get
    <2>3. SeesEntry(thr[t])'
      BY <2>1, <2>2 DEF SeesEntry, Seeing
    <2> QED
      BY <2>1, <2>3, OthersSee, StayKnown DEF LockedInv
  <1>4. ASSUME NEW t \in Threads, Check(t) PROVE LockedInv'
    <2> DEFINE a == thr[t].agent
               p == thr[t].pid
    <2>1. /\ thr[t].pc = "check" /\ a \in Agents /\ p \in Pids /\ lock = t
          /\ registry[a] # NONE /\ registry[a].pid = p
      BY <1>4, HoldsLock, ThreadFacts
         DEF Check, At, ThreadOK, Seeing, LockedInv, AllSeeEntries, SeesEntry
    <2>2. UNCHANGED <<st, owner>> /\ thr' = [thr EXCEPT ![t] = thr'[t]]
      BY <1>4, ThreadFacts DEF Check, Goto, Finish
    <2>3. /\ UNCHANGED registry \/ registry' = [registry EXCEPT ![a] = [pid |-> p, idle |-> FALSE]]
          /\ \/ thr'[t].pc = "idle"
             \/ UNCHANGED registry /\ thr'[t].agent = a /\ thr'[t].pid = p
      BY <1>4, ThreadFacts DEF Check, Goto, Finish, Idle, Thread
    <2>4. SeesEntry(thr[t])'
      BY <2>1, <2>3 DEF SeesEntry, Seeing
    <2>5. [pid |-> p, idle |-> FALSE] \in Entry /\ NONE \notin Entry
      BY <2>1, NamesAssumption DEF Entry
    <2>6. \A b \in Agents : registry[b] # NONE =>
              registry'[b] # NONE /\ registry'[b].pid = registry[b].pid
      BY <2>1, <2>3, <2>5, ThreadFacts
    <2> QED
      BY <2>1, <2>2, <2>4, <2>6, OthersSee, StayKnown DEF LockedInv
  <1>5. ASSUME NEW t \in Threads, Drop(t) \/ Delete(t) PROVE LockedInv'
    <2> DEFINE a == thr[t].agent
               p == thr[t].pid
    <2>1. /\ thr[t].pc \in {"drop", "del"} /\ a \in Agents /\ p \in Pids /\ st[p] \in Perished
          /\ lock = t /\ registry[a] # NONE /\ registry[a].pid = p
      BY <1>5, HoldsLock, ThreadFacts
         DEF Drop, Delete, At, ThreadOK, SightOK, Seeing, Perished, LockedInv, AllSeeEntries, SeesEntry
    <2>2. UNCHANGED <<st, owner>> /\ registry' = [registry EXCEPT ![a] = NONE]
      BY <1>5, <2>1 DEF Drop, Delete
    <2>3. thr' = [thr EXCEPT ![t] = thr'[t]] /\ thr'[t].pc \in {"idle", "launch", "pick"}
      <3>1. Finish(t) \/ Goto(t, "launch") \/ Goto(t, "pick")
        BY <1>5 DEF Drop, Delete
      <3> QED
        BY <3>1, GotoMoves, FinishMoves DEF Idle
    <2>4. SeesEntry(thr[t])'
      BY <2>3 DEF SeesEntry, Seeing
    <2> QED
      BY <2>1, <2>2, <2>3, <2>4, OthersSee, GoneIsForgotten DEF LockedInv
  <1>6. ASSUME NEW t \in Threads, Launch(t) PROVE LockedInv'
    <2> DEFINE a == thr[t].agent
    <2>1. /\ a \in Agents /\ lock = t /\ registry[a] = NONE
          /\ thr' = [thr EXCEPT ![t] = thr'[t]] /\ thr'[t].pc = "idle"
      BY <1>6, HoldsLock, ThreadFacts DEF Launch, At, ThreadOK, SightOK, Finish, Idle
    <2>2. SeesEntry(thr[t])'
      BY <2>1 DEF SeesEntry, Seeing
    <2>3. CASE UNCHANGED <<st, owner, registry>>
      BY <2>1, <2>2, <2>3, OthersSee, StayKnown DEF LockedInv
    <2>4. ASSUME NEW p \in Pids, st[p] = "unborn", st' = [st EXCEPT ![p] = "up"],
                 owner' = [owner EXCEPT ![p] = a],
                 registry' = [registry EXCEPT ![a] = [pid |-> p, idle |-> FALSE]]
          PROVE  AllKnown'
      <3> SUFFICES ASSUME NEW q \in Pids, st'[q] \in {"up", "term"} PROVE Known(q)'
        BY DEF AllKnown
      <3>1. [pid |-> p, idle |-> FALSE] \in Entry /\ NONE \notin Entry
        BY NamesAssumption DEF Entry
      <3>2. CASE q = p
        BY <2>1, <2>4, <3>1, <3>2, ThreadFacts DEF Known
      <3>3. CASE q # p
        <4>1. Known(q) /\ owner[q] \in Agents /\ owner'[q] = owner[q]
          BY <2>4, <3>3, ThreadFacts DEF LockedInv, AllKnown, IInv, BornIsOwned
        <4> QED
          BY <2>1, <2>4, <4>1, ThreadFacts DEF Known
      <3> QED
        BY <3>2, <3>3
    <2>5. AllSeeEntries'
      BY <2>1, <2>2, OthersSee
    <2> QED
      BY <1>6, <2>3, <2>4, <2>5 DEF Launch, LockedInv
  <1>7. ASSUME NEW t \in Threads, SigTerm(t) \/ AwaitExit(t) PROVE LockedInv'
    <2>1. /\ UNCHANGED <<registry, owner>> /\ thr' = [thr EXCEPT ![t] = thr'[t]]
          /\ thr[t].pc \in Seeing /\ thr'[t].agent = thr[t].agent /\ thr'[t].pid = thr[t].pid
      BY <1>7, ThreadFacts DEF SigTerm, AwaitExit, At, Goto, Seeing, Thread
    <2>2. SeesEntry(thr[t])'
      BY <2>1 DEF SeesEntry, LockedInv, AllSeeEntries
    <2>3. \A q \in Pids : st'[q] \in {"up", "term"} => st[q] \in {"up", "term"}
      BY <1>7, ThreadFacts DEF SigTerm, AwaitExit, Running
    <2> QED
      BY <2>1, <2>2, <2>3, OthersSee, StayKnown DEF LockedInv
  <1>8. ASSUME Wake \/ Scan PROVE LockedInv'
    <2> DEFINE t == Sweeper
    <2>3. t \in Threads /\ (Finish(t) \/ Goto(t, "lock") \/ Goto(t, "pick"))
      BY <1>8 DEF Wake, Scan, Threads
    <2>1. /\ t \in Threads /\ UNCHANGED <<registry, st, owner>>
          /\ thr' = [thr EXCEPT ![t] = thr'[t]] /\ thr'[t].pc \in {"lock", "pick", "idle"}
      BY <1>8, <2>3, GotoMoves, FinishMoves DEF Wake, Scan, Idle
    <2>2. SeesEntry(thr[t])'
      BY <2>1 DEF SeesEntry, Seeing
    <2> QED
      BY <2>1, <2>2, OthersSee, StayKnown DEF LockedInv
  <1>9. ASSUME Pick PROVE LockedInv'
    <2> DEFINE t == Sweeper
    <2>1. t \in Threads /\ UNCHANGED <<registry, st, owner>> /\ thr' = [thr EXCEPT ![t] = thr'[t]]
      BY <1>9, ThreadFacts DEF Pick, Threads, Finish
    <2>2. \/ thr'[t].pc \in {"idle", "pick"}
          \/ \E a \in expired : /\ registry[a] # NONE
                                /\ thr'[t].agent = a /\ thr'[t].pid = registry[a].pid
      BY <1>9, PickMoves
    <2>3. SeesEntry(thr[t])'
      BY <2>1, <2>2 DEF SeesEntry, Seeing
    <2> QED
      BY <2>1, <2>3, OthersSee, StayKnown DEF LockedInv
  <1>10. ASSUME NEW p \in Pids, Exit(p) PROVE LockedInv'
    <2>1. UNCHANGED <<thr, registry, owner>>
      BY <1>10 DEF Exit
    <2>2. \A q \in Pids : st'[q] \in {"up", "term"} => st[q] \in {"up", "term"}
      BY <1>10 DEF Exit, IInv, TypeOK
    <2>3. AllKnown'
      BY <2>1, <2>2, StayKnown
    <2> QED
      BY <2>1, <2>3 DEF LockedInv, AllSeeEntries, SeesEntry
  <1>11. ASSUME NEW a \in Agents, Age(a) PROVE LockedInv'
    <2>1. UNCHANGED <<thr, st, owner>>
      BY <1>11 DEF Age
    <2>2. [pid |-> registry[a].pid, idle |-> TRUE] \in Entry /\ NONE \notin Entry
      BY <1>11, NamesAssumption DEF Age, IInv, TypeOK, Entry
    <2>3. \A b \in Agents : registry[b] # NONE =>
              registry'[b] # NONE /\ registry'[b].pid = registry[b].pid
      BY <1>11, <2>2 DEF Age, IInv, TypeOK
    <2>4. AllKnown'
      BY <2>1, <2>3, StayKnown
    <2>5. \A t \in Threads : thr[t].pc \in Seeing => thr[t].agent \in Agents
      BY ThreadFacts DEF ThreadOK
    <2> QED
      BY <2>1, <2>3, <2>4, <2>5 DEF LockedInv, AllSeeEntries, SeesEntry
  <1>12. CASE UNCHANGED vars
    BY <1>12 DEF vars, LockedInv, AllKnown, Known, AllSeeEntries, SeesEntry
  <1> QED
    BY <1>1, <1>2, <1>3, <1>4, <1>5, <1>6, <1>7, <1>8, <1>9, <1>10, <1>11, <1>12
       DEF Next, Step, Sweep

------------------------------------------------------------------------------
(* The theorems *)

(* The strengthening is an invariant, whatever requests arrive.            *)
THEOREM Invariance == Spec => []IInv
  BY InitIInv, StepIInv, PTL DEF Spec

(* The state has the type it should; in particular the holder of _lock is  *)
(* a thread inside the with block.                                         *)
THEOREM TypeCorrect == Spec => []TypeOK
  <1>1. IInv => TypeOK
    BY DEF IInv
  <1> QED
    BY <1>1, Invariance, PTL

(* Even with the unlocked status among the requests, a browser that runs   *)
(* without an entry had a predecessor that died (_live_entry).             *)
THEOREM FirstBrowserKept == Spec => []FirstBrowserNeverLost
  <1>1. IInv => FirstBrowserNeverLost
    BY DEF IInv
  <1> QED
    BY <1>1, Invariance, PTL

(* Even then, the sweep only kills browsers that are still idle at the     *)
(* moment it turns to them (sweep_idle).                                   *)
THEOREM SweepSparesTheActive == Spec => SweepSparesActive
  <1> DEFINE Spares == At(Sweeper, "pick") /\ thr'[Sweeper].pc = "term" =>
                           registry[thr'[Sweeper].agent].idle
  <1>1. ASSUME IInv, Next, At(Sweeper, "pick"), thr'[Sweeper].pc = "term"
        PROVE  registry[thr'[Sweeper].agent].idle
    <2>1. Sweeper \in Threads /\ Sweeper \notin Callers /\ thr[Sweeper].pc = "pick"
      BY <1>1, NamesAssumption DEF Threads, At
    <2>2. CASE Pick
      <3>1. PICK a \in expired : /\ registry[a] # NONE /\ thr'[Sweeper].agent = a
        BY <1>1, <2>2, PickMoves
      <3> QED
        BY <1>1, <2>1, <3>1 DEF IInv, ExpiredStayIdle
    <2>3. ASSUME NEW t \in Callers, NEW op \in Ops, NEW a \in Agents, Receive(t, op, a)
          PROVE  FALSE
      BY <1>1, <2>1, <2>3, ThreadFacts DEF Receive
    <2>4. ASSUME NEW t \in Threads, Step(t) PROVE FALSE
      <3>1. thr' = [thr EXCEPT ![t] = thr'[t]]
        BY <1>1, <2>4, ThreadFacts
           DEF Step, Acquire, Get, Check, Drop, Launch, SigTerm, AwaitExit, Delete, Goto, Finish
      <3>2. t # Sweeper
        BY <2>1, <2>4 DEF Step, Acquire, Get, Check, Drop, Launch, SigTerm, AwaitExit, Delete, At
      <3> QED
        BY <1>1, <2>1, <3>1, <3>2, ThreadFacts
    <2> QED
      BY <1>1, <2>1, <2>2, <2>3, <2>4 DEF Next, Sweep, Wake, Scan, At, Exit, Age
  <1>2. IInv /\ [Next]_vars => [Spares]_vars
    BY <1>1
  <1>3. []IInv /\ [][Next]_vars => [][Spares]_vars
    BY <1>2, PTL
  <1> QED
    BY <1>3, Invariance DEF Spec, SweepSparesActive

(* The strengthening for start and stop, which all take the lock.          *)
THEOREM LockedInvariance == AllLock => (Spec => []LockedInv)
  <1> SUFFICES ASSUME AllLock PROVE Spec => []LockedInv
    OBVIOUS
  <1>1. IInv /\ LockedInv /\ [Next]_vars => LockedInv'
    BY StepLockedInv
  <1> QED
    BY <1>1, InitLockedInv, Invariance, PTL DEF Spec

(* If every request takes the lock, no two Chromiums ever work on the      *)
(* profile of one agent (BrowserManager._lock).                            *)
THEOREM LockKeepsOneChromium == AllLock => (Spec => []OneChromiumPerAgent)
  <1> SUFFICES ASSUME AllLock PROVE Spec => []OneChromiumPerAgent
    OBVIOUS
  <1>1. LockedInv => OneChromiumPerAgent
    BY DEF LockedInv, AllKnown, Known, OneChromiumPerAgent
  <1> QED
    BY <1>1, LockedInvariance, PTL

(* If every request takes the lock, every delete finds the entry of the    *)
(* process that was examined: no KeyError, nobody else's browser forgotten *)
(* (_live_entry, stop, sweep_idle).                                        *)
THEOREM LockKeepsDeletesOwn == AllLock => (Spec => []DeletesItsOwnEntry)
  <1> SUFFICES ASSUME AllLock PROVE Spec => []DeletesItsOwnEntry
    OBVIOUS
  <1>1. LockedInv => DeletesItsOwnEntry
    BY DEF LockedInv, AllSeeEntries, SeesEntry, Seeing, DeletesItsOwnEntry
  <1> QED
    BY <1>1, LockedInvariance, PTL
==============================================================================
