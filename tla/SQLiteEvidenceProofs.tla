------------------------ MODULE SQLiteEvidenceProofs ------------------------
(***************************************************************************)
(* Theorems about the SQLite evidence store, for any number of processes,  *)
(* threads and events and however often processes time out and crash.      *)
(***************************************************************************)
EXTENDS SQLiteEvidence, ListProofs

\* The steps of append under self._lock, and those at which the last hash has
\* been read but the row is not committed.
Holding == {"locked", "hashed", "inserted", "committed"}

Hashed == {"hashed", "inserted"}

Appenders ==
    [at : {"idle", "called"} \cup Holding, event : Events \cup {NoEvent}, previous : Seq(Events)]

TypeInv ==
    /\ rows \in Seq(Rows(Events))
    /\ lock \in [Processes -> Writers \cup {NoWriter}]
    /\ database \in Writers \cup {NoWriter}
    /\ appender \in [Writers -> Appenders]
    /\ appended \subseteq Events
    /\ failed \subseteq Events
    /\ killed \subseteq Events
    /\ crashes \in 0..MaxCrashes

\* A thread in the body of append holds the lock of its process, one in a
\* transaction holds the file.
LocksAreHeld ==
    \A w \in Writers :
        /\ appender[w].at \in Holding => lock[ProcessOf(w)] = w
        /\ appender[w].at = "inserted" => database = w

\* A call is about an event of its process that no other call is about, and
\* that is not settled.
CallsAreDistinct ==
    /\ \A w \in Writers :
           IF appender[w].at = "idle"
             THEN appender[w].event = NoEvent
             ELSE /\ appender[w].event \in Events
                  /\ Issuer[appender[w].event] = ProcessOf(w)
                  /\ appender[w].event \notin appended \cup failed \cup killed
    /\ \A v, w \in Writers :
           appender[v].event = appender[w].event /\ appender[w].event # NoEvent => v = w

\* AcknowledgedIsStored, event by event.
OnTheWay(event) ==
    \E w \in Writers : appender[w].at = "committed" /\ appender[w].event = event

Stored(event) == \E i \in 1..Len(rows) : rows[i].event = event

EventsAreStored ==
    \A event \in Events :
        /\ event \in appended \/ OnTheWay(event) => Stored(event)
        /\ event \in failed => ~Stored(event)
        /\ Stored(event) => event \in appended \cup killed \/ OnTheWay(event)

\* From row k on, to row n, there are only rows of other processes than p.
ForeignFrom(s, k, n, p) == \A i \in (k + 1)..n : Issuer[s[i].event] # p

\* What came between the row an append was chained to and its own row is of
\* other processes: the lock of its own process was held all the time.
GapsAreForeign ==
    /\ \A i \in 1..Len(rows) :
           \E k \in 0..(i - 1) :
               /\ rows[i].previous = HashAt(rows, k)
               /\ ForeignFrom(rows, k, i - 1, Issuer[rows[i].event])
    /\ \A w \in Writers : appender[w].at \in Hashed =>
           \E k \in 0..Len(rows) :
               /\ appender[w].previous = HashAt(rows, k)
               /\ ForeignFrom(rows, k, Len(rows), ProcessOf(w))

CallInv == TypeInv /\ LocksAreHeld /\ CallsAreDistinct

StoreInv == CallInv /\ EventsAreStored

ChainInv == Chained(rows) /\ GapsAreForeign /\ BrokenMeansForked

----------------------------------------------------------------------------

LEMMA ProcessOfWriter ==
    ASSUME NEW w \in Writers
    PROVE  /\ ProcessOf(w) \in Processes
           /\ \A p \in Processes : w \in {p} \X Threads <=> ProcessOf(w) = p
  BY DEF Writers, ProcessOf

LEMMA IdleType == Idle \in Appenders /\ Idle.at = "idle" /\ Idle.event = NoEvent
  BY EmptySeq DEF Idle, Appenders

\* The locks and the events of calls, by the step of one thread.  at, event and
\* previous are those of its call afterwards.
LEMMA CallInvWork ==
    ASSUME CallInv, NEW w \in Writers, Work(w) \/ \E event \in Events : Call(w, event)
    PROVE  CallInv'
<1>1. TypeInv /\ LocksAreHeld /\ CallsAreDistinct
  BY DEF CallInv
<1>2. /\ appender[w] \in Appenders
      /\ ProcessOf(w) \in Processes
      /\ NoEvent \notin Events
      /\ NoWriter \notin Writers
  BY <1>1, ProcessOfWriter, StoreAssumption DEF TypeInv
<1>3. CASE \E event \in Events : Call(w, event)
  <2>1. PICK event \in Events : Call(w, event)
    BY <1>3
  <2> DEFINE k == [Idle EXCEPT !.at = "called", !.event = event]
  <2>2. k \in Appenders /\ k.at = "called" /\ k.event = event
    BY IdleType DEF Idle, Appenders
  <2>3. /\ appender'[w] = k
        /\ \A v \in Writers \ {w} : appender'[v] = appender[v]
        /\ appender' \in [Writers -> Appenders]
    BY <1>1, <2>1, <2>2 DEF Call, TypeInv
  <2> HIDE DEF k
  <2>4. TypeInv'
    BY <1>1, <2>1, <2>3 DEF Call, TypeInv
  <2>5. LocksAreHeld'
    BY <1>1, <2>1, <2>2, <2>3 DEF Call, LocksAreHeld, Holding
  <2>6. CallsAreDistinct'
    <3>1. /\ Issuer[event] = ProcessOf(w)
          /\ event \notin appended \cup failed \cup killed
          /\ \A v \in Writers : appender[v].event # event
          /\ UNCHANGED <<appended, failed, killed>>
      BY <2>1 DEF Call, Fresh
    <3>2. \A v \in Writers :
              IF appender'[v].at = "idle"
                THEN appender'[v].event = NoEvent
                ELSE /\ appender'[v].event \in Events
                     /\ Issuer[appender'[v].event] = ProcessOf(v)
                     /\ appender'[v].event \notin appended' \cup failed' \cup killed'
      BY <1>1, <2>2, <2>3, <3>1 DEF CallsAreDistinct
    <3>3. \A u, v \in Writers :
              appender'[u].event = appender'[v].event /\ appender'[v].event # NoEvent => u = v
      BY <1>1, <2>2, <2>3, <3>1 DEF CallsAreDistinct
    <3> QED  BY <3>2, <3>3 DEF CallsAreDistinct
  <2> QED  BY <2>4, <2>5, <2>6 DEF CallInv
<1>4. CASE Acquire(w)
  <2> DEFINE k == [appender[w] EXCEPT !.at = "locked"]
  <2>1. k \in Appenders /\ k.at = "locked" /\ k.event = appender[w].event
    BY <1>2 DEF Appenders, Holding
  <2>2. /\ appender'[w] = k
        /\ \A v \in Writers \ {w} : appender'[v] = appender[v]
        /\ appender' \in [Writers -> Appenders]
    BY <1>1, <1>4, <2>1 DEF Acquire, TypeInv
  <2> HIDE DEF k
  <2>3. TypeInv'
    <3>1. lock' \in [Processes -> Writers \cup {NoWriter}]
      BY <1>1, <1>2, <1>4 DEF Acquire, TypeInv
    <3> QED  BY <1>1, <1>4, <2>2, <3>1 DEF Acquire, TypeInv
  <2>4. LocksAreHeld'
    <3>1. ASSUME NEW v \in Writers, v # w, appender[v].at \in Holding
          PROVE  ProcessOf(v) # ProcessOf(w)
      BY <1>1, <1>2, <1>4, <3>1 DEF Acquire, LocksAreHeld
    <3> QED
      BY <1>1, <1>2, <1>4, <2>1, <2>2, <3>1, ProcessOfWriter
      DEF Acquire, LocksAreHeld, TypeInv
  <2>5. CallsAreDistinct'
    BY <1>1, <1>2, <1>4, <2>1, <2>2 DEF Acquire, CallsAreDistinct
  <2> QED  BY <2>3, <2>4, <2>5 DEF CallInv
<1>5. CASE SelectTail(w)
  <2> DEFINE k == [appender[w] EXCEPT !.at = "hashed", !.previous = TailHash(rows)]
  <2>1. TailHash(rows) \in Seq(Events)
    BY <1>1, TailIsLast, HashAtType, LenProperties DEF TypeInv
  <2>2. k \in Appenders /\ k.at = "hashed" /\ k.event = appender[w].event
    BY <1>2, <2>1 DEF Appenders, Holding
  <2>3. /\ appender'[w] = k
        /\ \A v \in Writers \ {w} : appender'[v] = appender[v]
        /\ appender' \in [Writers -> Appenders]
    BY <1>1, <1>5, <2>2 DEF SelectTail, TypeInv
  <2> HIDE DEF k
  <2>4. TypeInv'
    BY <1>1, <1>5, <2>3 DEF SelectTail, TypeInv
  <2>5. LocksAreHeld'
    BY <1>1, <1>5, <2>2, <2>3 DEF SelectTail, LocksAreHeld, Holding
  <2>6. CallsAreDistinct'
    BY <1>1, <1>2, <1>5, <2>2, <2>3 DEF SelectTail, CallsAreDistinct
  <2> QED  BY <2>4, <2>5, <2>6 DEF CallInv
<1>6. CASE Insert(w)
  <2> DEFINE k == [appender[w] EXCEPT !.at = "inserted"]
  <2>1. k \in Appenders /\ k.at = "inserted" /\ k.event = appender[w].event
    BY <1>2 DEF Appenders, Holding
  <2>2. /\ appender'[w] = k
        /\ \A v \in Writers \ {w} : appender'[v] = appender[v]
        /\ appender' \in [Writers -> Appenders]
    BY <1>1, <1>6, <2>1 DEF Insert, TypeInv
  <2> HIDE DEF k
  <2>3. TypeInv'
    BY <1>1, <1>6, <2>2 DEF Insert, TypeInv
  <2>4. LocksAreHeld'
    BY <1>1, <1>2, <1>6, <2>1, <2>2 DEF Insert, LocksAreHeld, Holding
  <2>5. CallsAreDistinct'
    BY <1>1, <1>2, <1>6, <2>1, <2>2 DEF Insert, CallsAreDistinct
  <2> QED  BY <2>3, <2>4, <2>5 DEF CallInv
<1>7. CASE Commit(w)
  <2> DEFINE k == [appender[w] EXCEPT !.at = "committed"]
  <2>1. k \in Appenders /\ k.at = "committed" /\ k.event = appender[w].event
    BY <1>2 DEF Appenders, Holding
  <2>2. /\ appender'[w] = k
        /\ \A v \in Writers \ {w} : appender'[v] = appender[v]
        /\ appender' \in [Writers -> Appenders]
    BY <1>1, <1>7, <2>1 DEF Commit, TypeInv
  <2> HIDE DEF k
  <2>3. rows' \in Seq(Rows(Events))
    <3>1. appender[w].event \in Events /\ appender[w].previous \in Seq(Events)
      BY <1>1, <1>2, <1>7 DEF Commit, CallsAreDistinct, Appenders
    <3> QED  BY <1>1, <1>7, <3>1, RowType, AppendProperties DEF Commit, TypeInv
  <2>4. TypeInv'
    BY <1>1, <1>7, <2>2, <2>3 DEF Commit, TypeInv
  <2>5. LocksAreHeld'
    BY <1>1, <1>2, <1>7, <2>1, <2>2 DEF Commit, LocksAreHeld, Holding
  <2>6. CallsAreDistinct'
    BY <1>1, <1>2, <1>7, <2>1, <2>2 DEF Commit, CallsAreDistinct
  <2> QED  BY <2>4, <2>5, <2>6 DEF CallInv
<1>8. CASE TimeOut(w) \/ Return(w)
  <2>1. /\ appender[w].at \in Holding
        /\ \/ appended' = appended \cup {appender[w].event} /\ failed' = failed
           \/ failed' = failed \cup {appender[w].event} /\ appended' = appended
        /\ UNCHANGED <<rows, killed, crashes>>
        /\ database' = database \/ database' = NoWriter
        /\ database' = database \/ database = w
        /\ Release(w)
    BY <1>8, <1>2 DEF TimeOut, Return, Busy, Holding
  <2>2. appender[w].event \in Events
    BY <1>1, <2>1 DEF CallsAreDistinct, Holding
  <2>3. /\ appender'[w] = Idle
        /\ \A v \in Writers \ {w} : appender'[v] = appender[v]
        /\ appender' \in [Writers -> Appenders]
    BY <1>1, <2>1, IdleType DEF Release, TypeInv
  <2>4. TypeInv'
    BY <1>1, <1>2, <2>1, <2>2, <2>3 DEF TypeInv, Release
  <2>5. LocksAreHeld'
    <3>1. ASSUME NEW v \in Writers, v # w, appender[v].at \in Holding
          PROVE  ProcessOf(v) # ProcessOf(w)
      BY <1>1, <2>1, <3>1 DEF LocksAreHeld
    <3> QED
      BY <1>1, <1>2, <2>1, <2>3, <3>1, IdleType, ProcessOfWriter
      DEF LocksAreHeld, Release, TypeInv, Holding
  <2>6. CallsAreDistinct'
    BY <1>1, <1>2, <2>1, <2>2, <2>3, IdleType DEF CallsAreDistinct
  <2> QED  BY <2>4, <2>5, <2>6 DEF CallInv
<1> QED  BY <1>3, <1>4, <1>5, <1>6, <1>7, <1>8 DEF Work

\* A crash leaves the calls of the other processes as they are.
LEMMA CrashFrame ==
    ASSUME CallInv, NEW p \in Processes, Crash(p)
    PROVE  /\ \A w \in Writers : /\ ProcessOf(w) = p => appender'[w] = Idle
                                 /\ ProcessOf(w) # p => appender'[w] = appender[w]
           /\ \A w \in Writers : ProcessOf(w) = p /\ appender[w].at # "idle" =>
                                     appender[w].event \in killed'
           /\ \A event \in killed' : \/ event \in killed
                                     \/ \E w \in Writers : /\ ProcessOf(w) = p
                                                           /\ appender[w].event = event
           /\ killed' \subseteq Events /\ killed \subseteq killed'
<1>1. \A w : w \in {p} \X Threads <=> w \in Writers /\ ProcessOf(w) = p
  BY ProcessOfWriter DEF Writers
<1>2. killed' = killed \cup ({appender[w].event : w \in {p} \X Threads} \ {NoEvent})
  BY DEF Crash
<1>3. \A w \in Writers : /\ appender[w].event \in Events \cup {NoEvent}
                         /\ appender[w].at # "idle" => appender[w].event \in Events
  BY DEF CallInv, TypeInv, Appenders, CallsAreDistinct
<1>4. \A w \in Writers : appender'[w] = IF ProcessOf(w) = p THEN Idle ELSE appender[w]
  BY DEF Crash
<1> QED  BY <1>1, <1>2, <1>3, <1>4, StoreAssumption DEF CallInv, TypeInv

LEMMA CallInvCrash ==
    ASSUME CallInv, NEW p \in Processes, Crash(p)
    PROVE  CallInv'
<1>1. TypeInv /\ LocksAreHeld /\ CallsAreDistinct
  BY DEF CallInv
<1>2. TypeInv'
  <2>1. appender' \in [Writers -> Appenders]
    BY <1>1, IdleType DEF Crash, TypeInv
  <2>2. crashes' \in 0..MaxCrashes
    BY <1>1, StoreAssumption DEF Crash, TypeInv
  <2> QED  BY <1>1, <2>1, <2>2, CrashFrame DEF Crash, TypeInv
<1>3. LocksAreHeld'
  <2> SUFFICES ASSUME NEW w \in Writers, appender'[w].at \in Holding
               PROVE  /\ lock'[ProcessOf(w)] = w
                      /\ appender'[w].at = "inserted" => database' = w
    BY DEF LocksAreHeld, Holding
  <2>1. ProcessOf(w) # p /\ appender'[w] = appender[w] /\ ProcessOf(w) \in Processes
    BY CrashFrame, IdleType, ProcessOfWriter DEF Holding
  <2>2. lock'[ProcessOf(w)] = w
    BY <1>1, <2>1 DEF Crash, LocksAreHeld, TypeInv
  <2>3. database = w => database' = w
    BY <2>1, ProcessOfWriter DEF Crash
  <2> QED  BY <1>1, <2>1, <2>2, <2>3 DEF LocksAreHeld
<1>4. CallsAreDistinct'
  <2>1. \A v, w \in Writers :
            appender'[v].event = appender'[w].event /\ appender'[w].event # NoEvent => v = w
    BY <1>1, CrashFrame, IdleType DEF CallsAreDistinct
  <2>2. ASSUME NEW w \in Writers, appender'[w].at # "idle"
        PROVE  /\ appender'[w].event \in Events
               /\ Issuer[appender'[w].event] = ProcessOf(w)
               /\ appender'[w].event \notin appended' \cup failed' \cup killed'
    <3>1. ProcessOf(w) # p /\ appender'[w] = appender[w]
      BY <2>2, CrashFrame, IdleType
    <3>2. appender[w].event \notin killed'
      BY <1>1, <2>2, <3>1, CrashFrame, StoreAssumption DEF CallsAreDistinct
    <3> QED  BY <1>1, <2>2, <3>1, <3>2 DEF CallsAreDistinct, Crash
  <2>3. \A w \in Writers : appender'[w].at = "idle" => appender'[w].event = NoEvent
    BY <1>1, CrashFrame, IdleType DEF CallsAreDistinct
  <2> QED  BY <2>1, <2>2, <2>3 DEF CallsAreDistinct
<1> QED  BY <1>2, <1>3, <1>4 DEF CallInv

LEMMA CallInvInit == Init => CallInv
<1> SUFFICES ASSUME Init PROVE CallInv
  OBVIOUS
<1>1. TypeInv
  BY IdleType, EmptySeq, StoreAssumption DEF Init, TypeInv
<1>2. LocksAreHeld /\ CallsAreDistinct
  BY IdleType DEF Init, LocksAreHeld, CallsAreDistinct, Holding
<1> QED  BY <1>1, <1>2 DEF CallInv

LEMMA CallInvStep == CallInv /\ [Next]_vars => CallInv'
<1> SUFFICES ASSUME CallInv, [Next]_vars PROVE CallInv'
  OBVIOUS
<1>1. CASE UNCHANGED vars
  BY <1>1 DEF vars, CallInv, TypeInv, LocksAreHeld, CallsAreDistinct
<1> QED  BY <1>1, CallInvWork, CallInvCrash DEF Next

----------------------------------------------------------------------------
(* What is in the table.                                                   *)

\* The event of a call that is not committed is not in the table.
LEMMA PendingIsNotStored ==
    ASSUME StoreInv, NEW w \in Writers, appender[w].at \notin {"idle", "committed"}
    PROVE  /\ appender[w].event \in Events
           /\ ~Stored(appender[w].event)
           /\ ~OnTheWay(appender[w].event)
<1>1. /\ appender[w].event \in Events
      /\ appender[w].event \notin appended \cup failed \cup killed
  BY DEF StoreInv, CallInv, CallsAreDistinct
<1>2. ~OnTheWay(appender[w].event)
  BY <1>1, StoreAssumption DEF StoreInv, CallInv, CallsAreDistinct, OnTheWay
<1> QED  BY <1>1, <1>2 DEF StoreInv, EventsAreStored

\* A step that commits nothing and settles nothing.
LEMMA StoreFrame ==
    ASSUME StoreInv, CallInv', UNCHANGED <<rows, appended, failed, killed>>,
           \A v \in Writers :
               appender[v].at = "committed" \/ appender'[v].at = "committed" =>
                   appender'[v] = appender[v]
    PROVE  StoreInv'
<1>1. \A event \in Events : /\ Stored(event)' <=> Stored(event)
                            /\ OnTheWay(event)' <=> OnTheWay(event)
  BY DEF Stored, OnTheWay
<1> QED  BY <1>1 DEF StoreInv, EventsAreStored

\* Commit and Return are the only steps that move an event on in the table.
LEMMA StoreInvWork ==
    ASSUME StoreInv, CallInv', NEW w \in Writers,
           Work(w) \/ \E event \in Events : Call(w, event)
    PROVE  StoreInv'
<1>1. TypeInv /\ CallsAreDistinct /\ EventsAreStored /\ CallInv
  BY DEF StoreInv, CallInv
<1>2. appender \in [Writers -> Appenders]
  BY <1>1 DEF TypeInv
<1>3. CASE \/ Acquire(w) \/ SelectTail(w) \/ Insert(w)
           \/ \E event \in Events : Call(w, event)
  <2>1. /\ UNCHANGED <<rows, appended, failed, killed>>
        /\ appender[w].at # "committed" /\ appender'[w].at # "committed"
        /\ \A v \in Writers \ {w} : appender'[v] = appender[v]
    BY <1>2, <1>3 DEF Acquire, SelectTail, Insert, Call, Idle, Appenders
  <2> QED  BY <2>1, StoreFrame
<1>4. CASE Commit(w)
  <2> DEFINE ev == appender[w].event
  <2>1. ev \in Events /\ ~Stored(ev) /\ ev \notin failed
    BY <1>1, <1>4, PendingIsNotStored DEF Commit, CallsAreDistinct
  <2>2. /\ Len(rows') = Len(rows) + 1
        /\ \A i \in 1..Len(rows) : rows'[i] = rows[i]
        /\ rows'[Len(rows) + 1].event = ev
        /\ Len(rows) \in Nat
    <3>1. appender[w].previous \in Seq(Events)
      BY <1>2 DEF Appenders
    <3> QED
      BY <1>1, <1>4, <2>1, <3>1, RowType, AppendProperties, LenProperties DEF Commit, TypeInv
  <2>3. \A event \in Events : Stored(event)' <=> Stored(event) \/ event = ev
    BY <2>2 DEF Stored
  <2>4. \A event \in Events : OnTheWay(event)' <=> OnTheWay(event) \/ event = ev
    <3>1. /\ appender'[w].at = "committed" /\ appender'[w].event = ev
          /\ appender[w].at # "committed"
          /\ \A v \in Writers \ {w} : appender'[v] = appender[v]
      BY <1>2, <1>4 DEF Commit, Appenders
    <3> QED  BY <3>1 DEF OnTheWay
  <2> QED  BY <1>1, <1>4, <2>1, <2>3, <2>4 DEF StoreInv, EventsAreStored, Commit
<1>5. CASE TimeOut(w)
  <2> DEFINE ev == appender[w].event
  <2>1. ev \in Events /\ ~Stored(ev) /\ ~OnTheWay(ev)
    BY <1>5, PendingIsNotStored DEF TimeOut, Busy
  <2>2. \A event \in Events : Stored(event)' <=> Stored(event)
    BY <1>5 DEF TimeOut, Stored
  <2>3. \A event \in Events : OnTheWay(event)' <=> OnTheWay(event)
    <3>1. /\ appender'[w].at = "idle"
          /\ appender[w].at # "committed"
          /\ \A v \in Writers \ {w} : appender'[v] = appender[v]
      BY <1>2, <1>5, IdleType DEF TimeOut, Release, Busy
    <3> QED  BY <3>1 DEF OnTheWay
  <2> QED  BY <1>1, <1>5, <2>1, <2>2, <2>3 DEF StoreInv, EventsAreStored, TimeOut
<1>6. CASE Return(w)
  <2> DEFINE ev == appender[w].event
  <2>1. ev \in Events /\ OnTheWay(ev)
    BY <1>1, <1>6 DEF Return, CallsAreDistinct, OnTheWay
  <2>2. \A event \in Events : Stored(event)' <=> Stored(event)
    BY <1>6 DEF Return, Stored
  <2>3. \A event \in Events : OnTheWay(event) <=> OnTheWay(event)' \/ event = ev
    <3>1. /\ appender'[w].at = "idle"
          /\ appender[w].at = "committed"
          /\ \A v \in Writers \ {w} : appender'[v] = appender[v]
      BY <1>2, <1>6, IdleType DEF Return, Release
    <3> QED  BY <3>1 DEF OnTheWay
  <2> QED  BY <1>1, <1>6, <2>1, <2>2, <2>3 DEF StoreInv, EventsAreStored, Return
<1> QED  BY <1>3, <1>4, <1>5, <1>6 DEF Work

LEMMA StoreInvCrash ==
    ASSUME StoreInv, CallInv', NEW p \in Processes, Crash(p)
    PROVE  StoreInv'
<1>1. TypeInv /\ CallsAreDistinct /\ EventsAreStored /\ CallInv
  BY DEF StoreInv, CallInv
<1>2. \A event \in Events : Stored(event)' <=> Stored(event)
  BY DEF Crash, Stored
<1>3. ASSUME NEW event \in Events
      PROVE  /\ OnTheWay(event)' => OnTheWay(event)
             /\ OnTheWay(event) => OnTheWay(event)' \/ event \in killed'
  BY CrashFrame, IdleType, <1>1 DEF OnTheWay
<1>4. UNCHANGED <<appended, failed>> /\ killed \subseteq killed'
  BY <1>1, CrashFrame DEF Crash
<1> QED  BY <1>1, <1>2, <1>3, <1>4 DEF StoreInv, EventsAreStored

LEMMA StoreInvInit == Init => StoreInv
<1> SUFFICES ASSUME Init PROVE StoreInv
  OBVIOUS
<1>1. \A event : ~Stored(event) /\ ~OnTheWay(event)
  BY EmptySeq, IdleType DEF Init, Stored, OnTheWay
<1> QED  BY <1>1, CallInvInit DEF StoreInv, EventsAreStored, Init

LEMMA StoreInvStep == StoreInv /\ [Next]_vars => StoreInv'
<1> SUFFICES ASSUME StoreInv, [Next]_vars PROVE StoreInv'
  OBVIOUS
<1>1. CallInv'
  BY CallInvStep DEF StoreInv
<1>2. CASE UNCHANGED vars
  BY <1>1, <1>2, StoreFrame DEF vars
<1> QED  BY <1>1, <1>2, StoreInvWork, StoreInvCrash DEF Next

----------------------------------------------------------------------------
(* The chain.                                                              *)

\* Steps that add no row, and by which no thread comes to hold another hash.
LEMMA ChainFrame ==
    ASSUME ChainInv, rows' = rows,
           \A w \in Writers : appender'[w].at \in Hashed =>
               /\ appender[w].at \in Hashed
               /\ appender'[w].previous = appender[w].previous
    PROVE  ChainInv'
<1>1. Chained(rows)' /\ BrokenMeansForked'
  BY DEF ChainInv, BrokenMeansForked, Verifies, RowVerifies
<1>2. GapsAreForeign'
  BY DEF ChainInv, GapsAreForeign
<1> QED  BY <1>1, <1>2 DEF ChainInv

LEMMA ChainSelect ==
    ASSUME StoreInv, ChainInv, NEW w \in Writers, SelectTail(w)
    PROVE  ChainInv'
<1>1. /\ rows' = rows /\ rows \in Seq(Rows(Events)) /\ Len(rows) \in Nat
      /\ appender \in [Writers -> Appenders]
  BY LenProperties DEF SelectTail, StoreInv, CallInv, TypeInv
<1>2. /\ appender'[w].previous = HashAt(rows, Len(rows))
      /\ \A v \in Writers \ {w} : appender'[v] = appender[v]
  BY <1>1, TailIsLast DEF SelectTail, Appenders
<1>3. Chained(rows)' /\ BrokenMeansForked'
  BY <1>1 DEF ChainInv, BrokenMeansForked, Verifies, RowVerifies
<1>4. GapsAreForeign'
  <2>1. ForeignFrom(rows, Len(rows), Len(rows), ProcessOf(w))
    BY <1>1 DEF ForeignFrom
  <2>2. \E k \in 0..Len(rows) : /\ appender'[w].previous = HashAt(rows, k)
                                /\ ForeignFrom(rows, k, Len(rows), ProcessOf(w))
    BY <1>1, <1>2, <2>1
  <2> QED  BY <1>1, <1>2, <2>2 DEF ChainInv, GapsAreForeign
<1> QED  BY <1>3, <1>4 DEF ChainInv

\* The row that is committed was chained before rows of other processes only: it
\* breaks the chain exactly if there is one, which was then chained to the same.
LEMMA ChainCommit ==
    ASSUME StoreInv, ChainInv, NEW w \in Writers, Commit(w)
    PROVE  ChainInv'
<1> DEFINE ev == appender[w].event
           n == Len(rows)
<1>1. /\ TypeInv /\ LocksAreHeld /\ CallsAreDistinct /\ Chained(rows)
      /\ GapsAreForeign /\ BrokenMeansForked
      /\ rows \in Seq(Rows(Events)) /\ DOMAIN rows = 1..n
      /\ ev \in Events /\ Issuer[ev] = ProcessOf(w)
      /\ appender[w].at = "inserted"
  BY LenProperties DEF StoreInv, ChainInv, CallInv, TypeInv, CallsAreDistinct, Commit
<1>2. n \in Nat
  BY <1>1, LenProperties
<1>3. \A i \in 1..n : rows[i].event # ev
  BY PendingIsNotStored DEF Commit, Stored
<1>4. PICK k \in 0..n : /\ appender[w].previous = HashAt(rows, k)
                        /\ ForeignFrom(rows, k, n, ProcessOf(w))
  BY <1>1 DEF GapsAreForeign, Hashed
<1>5. rows' = Append(rows, Row(ev, HashAt(rows, k)))
  BY <1>4 DEF Commit
<1>6. /\ rows' \in Seq(Rows(Events))
      /\ Len(rows') = n + 1
      /\ \A i \in 1..n : rows'[i] = rows[i]
      /\ rows'[n + 1].event = ev
      /\ rows'[n + 1].previous = HashAt(rows', k)
      /\ \A m \in 0..n : HashAt(rows', m) = HashAt(rows, m)
      /\ Chained(rows')
      /\ Verifies(rows') <=> Verifies(rows) /\ k = n
  <2>1. /\ rows \in Seq(Rows(Events)) /\ Chained(rows) /\ ev \in Events
        /\ \A i \in 1..Len(rows) : rows[i].event # ev
        /\ k \in 0..Len(rows)
    BY <1>1, <1>3
  <2> HIDE DEF ev
  <2> QED  BY <1>5, <2>1, AppendKeepsChain
<1>7. ASSUME NEW v \in Writers, appender'[v].at \in Hashed
      PROVE  appender'[v] = appender[v] /\ ProcessOf(v) # ProcessOf(w)
  <2>1. v # w
    BY <1>1, <1>7 DEF Commit, Hashed, TypeInv, Appenders
  <2>2. appender'[v] = appender[v]
    BY <1>1, <2>1 DEF Commit, TypeInv
  <2> QED  BY <1>1, <1>7, <2>1, <2>2 DEF LocksAreHeld, Hashed, Holding
<1>8. GapsAreForeign'
  <2> HIDE DEF ev, n
  <2> USE <1>2
  <2>0. ASSUME NEW m \in 0..n, NEW j \in 0..n, NEW p, ForeignFrom(rows, m, j, p)
        PROVE  ForeignFrom(rows', m, j, p)
    BY <1>6, <2>0 DEF ForeignFrom
  <2>1. ASSUME NEW i \in 1..(n + 1)
        PROVE  \E m \in 0..(i - 1) : /\ rows'[i].previous = HashAt(rows', m)
                                     /\ ForeignFrom(rows', m, i - 1, Issuer[rows'[i].event])
    <3>1. CASE i = n + 1
      <4>1. ForeignFrom(rows', k, n, Issuer[ev])
        BY <1>1, <1>4, <2>0
      <4> QED  BY <1>2, <1>6, <3>1, <4>1
    <3>2. CASE i # n + 1
      <4>1. i \in 1..n
        BY <1>2, <3>2
      <4>2. PICK m \in 0..(i - 1) :
                   /\ rows[i].previous = HashAt(rows, m)
                   /\ ForeignFrom(rows, m, i - 1, Issuer[rows[i].event])
        BY <1>1, <4>1 DEF GapsAreForeign
      <4>3. ForeignFrom(rows', m, i - 1, Issuer[rows'[i].event])
        <5>1. i - 1 \in 0..n /\ m \in 0..n
          BY <4>1
        <5> QED  BY <1>6, <2>0, <4>1, <4>2, <5>1
      <4> QED  BY <1>2, <1>6, <4>1, <4>2, <4>3
    <3> QED  BY <3>1, <3>2
  <2>2. ASSUME NEW v \in Writers, appender'[v].at \in Hashed
        PROVE  \E m \in 0..(n + 1) : /\ appender'[v].previous = HashAt(rows', m)
                                     /\ ForeignFrom(rows', m, n + 1, ProcessOf(v))
    <3>1. appender'[v] = appender[v] /\ ProcessOf(v) # ProcessOf(w)
      BY <1>7, <2>2
    <3>2. PICK m \in 0..n : /\ appender[v].previous = HashAt(rows, m)
                            /\ ForeignFrom(rows, m, n, ProcessOf(v))
      BY <1>1, <2>2, <3>1 DEF GapsAreForeign
    <3>3. ForeignFrom(rows', m, n + 1, ProcessOf(v))
      <4>1. ForeignFrom(rows', m, n, ProcessOf(v))
        BY <2>0, <3>2
      <4>2. \A i \in (m + 1)..(n + 1) : i \in (m + 1)..n \/ i = n + 1
        OBVIOUS
      <4> QED  BY <1>1, <1>6, <3>1, <4>1, <4>2 DEF ForeignFrom
    <3> QED  BY <1>2, <1>6, <3>1, <3>2, <3>3
  <2> QED  BY <1>6, <2>1, <2>2 DEF GapsAreForeign
<1>9. BrokenMeansForked'
  <2> DEFINE Pair(s, i, j) == /\ s[i].previous = s[j].previous
                              /\ Issuer[s[i].event] # Issuer[s[j].event]
  <2>1. DOMAIN rows' = 1..(n + 1)
    BY <1>6, LenProperties
  <2>2. CASE Verifies(rows) /\ k = n
    <3>1. \A i \in 1..(n + 1) : rows'[i].previous = HashAt(rows', i - 1)
      BY <1>6, <2>2, VerifiesLinks
    <3>2. ASSUME NEW i \in 1..(n + 1), NEW j \in 1..(n + 1),
                 rows'[i].previous = rows'[j].previous
          PROVE  i = j
      <4>1. HashAt(rows', i - 1) = HashAt(rows', j - 1)
        BY <3>1, <3>2
      <4>2. i - 1 \in 0..Len(rows') /\ j - 1 \in 0..Len(rows')
        BY <1>2, <1>6
      <4>3. i - 1 = j - 1
        BY <1>6, <4>1, <4>2, HashAtInjective
      <4> QED  BY <4>3
    <3> QED  BY <1>6, <2>1, <2>2, <3>2 DEF BrokenMeansForked
  <2>3. CASE Verifies(rows) /\ k # n
    <3>1. k + 1 \in 1..n /\ n + 1 \in 1..(n + 1)
      BY <1>2, <2>3
    <3>2. rows[k + 1].previous = HashAt(rows, k)
      <4>1. \A i \in 1..n : rows[i].previous = HashAt(rows, i - 1)
        BY <1>1, <2>3, VerifiesLinks
      <4>2. (k + 1) - 1 = k
        BY <1>2
      <4> QED  BY <3>1, <4>1, <4>2
    <3>3. Issuer[rows[k + 1].event] # Issuer[ev]
      BY <1>1, <1>4, <3>1 DEF ForeignFrom
    <3>4. Pair(rows', k + 1, n + 1)
      BY <1>2, <1>6, <3>1, <3>2, <3>3
    <3>5. k + 1 \in 1..(n + 1)
      BY <1>2, <3>1
    <3> QED  BY <1>6, <2>1, <2>3, <3>1, <3>4, <3>5 DEF BrokenMeansForked
  <2>4. CASE ~Verifies(rows)
    <3>1. PICK i \in 1..n, j \in 1..n : Pair(rows, i, j)
      BY <1>1, <2>4 DEF BrokenMeansForked
    <3>2. Pair(rows', i, j) /\ i \in 1..(n + 1) /\ j \in 1..(n + 1)
      BY <1>2, <1>6, <3>1
    <3> QED  BY <1>6, <2>1, <2>4, <3>2 DEF BrokenMeansForked
  <2> QED  BY <2>2, <2>3, <2>4
<1> QED  BY <1>6, <1>8, <1>9 DEF ChainInv

LEMMA ChainInvInit == Init => ChainInv
<1> SUFFICES ASSUME Init PROVE ChainInv
  OBVIOUS
<1>1. rows = <<>> /\ Len(rows) = 0 /\ DOMAIN rows = {}
  BY EmptySeq DEF Init
<1>2. \A w \in Writers : appender[w].at \notin Hashed
  BY IdleType DEF Init, Hashed
<1> QED
  BY <1>1, <1>2
  DEF ChainInv, Chained, GapsAreForeign, BrokenMeansForked, Verifies

LEMMA ChainInvStep == StoreInv /\ ChainInv /\ [Next]_vars => ChainInv'
<1> SUFFICES ASSUME StoreInv, ChainInv, [Next]_vars PROVE ChainInv'
  OBVIOUS
<1>1. appender \in [Writers -> Appenders]
  BY DEF StoreInv, CallInv, TypeInv
<1>2. CASE UNCHANGED vars
  BY <1>2, ChainFrame DEF vars
<1>3. CASE \E w \in Writers : \/ Acquire(w) \/ Insert(w) \/ TimeOut(w) \/ Return(w)
                              \/ \E event \in Events : Call(w, event)
  <2>1. PICK w \in Writers : \/ Acquire(w) \/ Insert(w) \/ TimeOut(w) \/ Return(w)
                             \/ \E event \in Events : Call(w, event)
    BY <1>3
  <2>2. /\ rows' = rows
        /\ appender'[w].at \in Hashed => /\ appender[w].at \in Hashed
                                         /\ appender'[w].previous = appender[w].previous
        /\ \A v \in Writers \ {w} : appender'[v] = appender[v]
    <3>1. CASE Acquire(w) \/ Insert(w)
      BY <1>1, <3>1 DEF Acquire, Insert, Hashed, Appenders
    <3>2. CASE TimeOut(w) \/ Return(w)
      BY <1>1, <3>2 DEF TimeOut, Return, Release, Idle, Hashed
    <3>3. CASE \E event \in Events : Call(w, event)
      BY <1>1, <3>3 DEF Call, Idle, Hashed
    <3> QED  BY <2>1, <3>1, <3>2, <3>3
  <2> QED  BY <2>2, ChainFrame
<1>4. CASE \E w \in Writers : SelectTail(w) \/ Commit(w)
  BY <1>4, ChainSelect, ChainCommit
<1>5. CASE \E p \in Processes : Crash(p)
  <2>1. rows' = rows
    BY <1>5 DEF Crash
  <2>2. \A w \in Writers : appender'[w] \in {Idle, appender[w]}
    BY <1>5, CrashFrame DEF StoreInv
  <2> QED  BY <2>1, <2>2, IdleType, ChainFrame DEF Hashed
<1> QED  BY <1>2, <1>3, <1>4, <1>5 DEF Next, Work

----------------------------------------------------------------------------
(* Theorems.                                                               *)

\* Every acknowledged event is in the table and no refused one is, whatever times
\* out and whenever processes are killed (append, sqlite_store.py).
THEOREM AcknowledgedCorrect == Spec => []AcknowledgedIsStored
<1>1. StoreInv => AcknowledgedIsStored
  <2> SUFFICES ASSUME StoreInv PROVE AcknowledgedIsStored
    OBVIOUS
  <2> DEFINE stored == {rows[i].event : i \in DOMAIN rows}
             onTheWay == {appender[w].event :
                              w \in {v \in Writers : appender[v].at = "committed"}}
  <2>1. /\ rows \in Seq(Rows(Events)) /\ DOMAIN rows = 1..Len(rows)
        /\ appended \subseteq Events /\ failed \subseteq Events
        /\ EventsAreStored /\ CallsAreDistinct
    BY LenProperties DEF StoreInv, CallInv, TypeInv
  <2>2. \A i \in 1..Len(rows) : rows[i].event \in Events
    BY <2>1, RowOfRows
  <2>3. \A event : event \in stored <=> event \in Events /\ Stored(event)
    BY <2>1, <2>2 DEF Stored
  <2>4. \A event : event \in onTheWay <=> event \in Events /\ OnTheWay(event)
    BY <2>1 DEF OnTheWay, CallsAreDistinct
  <2> HIDE DEF stored, onTheWay
  <2>5. /\ appended \cup onTheWay \subseteq stored
        /\ failed \cap stored = {}
        /\ stored \subseteq appended \cup onTheWay \cup killed
    BY <2>1, <2>3, <2>4 DEF EventsAreStored
  <2> QED  BY <2>5 DEF AcknowledgedIsStored, stored, onTheWay
<1> QED  BY <1>1, StoreInvInit, StoreInvStep, PTL DEF Spec

\* verify_chain fails exactly when rows of two processes were chained to the same
\* hash, however many processes, threads and crashes there are.
THEOREM BrokenMeansForkedCorrect == Spec => []BrokenMeansForked
<1>1. StoreInv /\ ChainInv => BrokenMeansForked
  BY DEF ChainInv
<1> QED
  BY <1>1, StoreInvInit, StoreInvStep, ChainInvInit, ChainInvStep, PTL DEF Spec

\* With one process on the file the chain always verifies: its lock is enough,
\* wherever an append is when it times out or the process is killed.
THEOREM OneProcessChainVerifies ==
    ASSUME \A p, q \in Processes : p = q
    PROVE  Spec => []Verifies(rows)
<1>1. StoreInv /\ BrokenMeansForked => Verifies(rows)
  <2> SUFFICES ASSUME StoreInv, BrokenMeansForked PROVE Verifies(rows)
    OBVIOUS
  <2>1. rows \in Seq(Rows(Events)) /\ DOMAIN rows = 1..Len(rows)
    BY LenProperties DEF StoreInv, CallInv, TypeInv
  <2>2. \A i \in 1..Len(rows) : rows[i].event \in Events
    BY <2>1, RowOfRows
  <2>3. \A i \in DOMAIN rows : Issuer[rows[i].event] \in Processes
    BY <2>1, <2>2, StoreAssumption
  <2> QED  BY <2>3 DEF BrokenMeansForked
<1> QED
  BY <1>1, BrokenMeansForkedCorrect, StoreInvInit, StoreInvStep, PTL DEF Spec

\* As a log of events the table is append-only and free of repetitions, also
\* across time-outs and crashes: the store implements EvidenceLog.
THEOREM StoreImplementsLog == Spec => ImplementsLog
<1>1. Init => Log!Init
  BY DEF Init, Log!Init, EventsOf
<1>2. StoreInv /\ [Next]_vars => [Log!Next]_(EventsOf(rows))
  <2> SUFFICES ASSUME StoreInv, [Next]_vars PROVE [Log!Next]_(EventsOf(rows))
    OBVIOUS
  <2>1. CASE \E w \in Writers : Commit(w)
    <3>1. PICK w \in Writers : Commit(w)
      BY <2>1
    <3> DEFINE ev == appender[w].event
               r == Row(ev, appender[w].previous)
    <3>2. /\ ev \in Events /\ ~Stored(ev)
          /\ rows \in Seq(Rows(Events)) /\ r \in Rows(Events) /\ r.event = ev
          /\ rows' = Append(rows, r)
      <4>1. appender[w].previous \in Seq(Events)
        BY DEF StoreInv, CallInv, TypeInv, Appenders
      <4> QED
        BY <3>1, <4>1, PendingIsNotStored, RowType DEF Commit, StoreInv, CallInv, TypeInv
    <3> HIDE DEF r
    <3>3. EventsOf(rows') = Append(EventsOf(rows), ev)
      BY <3>2, EventsOfAppend
    <3>4. \A i \in DOMAIN EventsOf(rows) : EventsOf(rows)[i] # ev
      BY <3>2, LenProperties DEF EventsOf, Stored
    <3> QED  BY <3>2, <3>3, <3>4 DEF Log!Next, Log!AppendEvent
  <2>2. CASE ~\E w \in Writers : Commit(w)
    <3>1. rows' = rows
      BY <2>2 DEF Next, vars, Work, Acquire, SelectTail, Insert, TimeOut, Return, Call, Crash
    <3> QED  BY <3>1 DEF EventsOf
  <2> QED  BY <2>1, <2>2
<1> QED  BY <1>1, <1>2, StoreInvInit, StoreInvStep, PTL DEF Spec, ImplementsLog, Log!Spec
=============================================================================
