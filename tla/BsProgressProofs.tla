-------------------------- MODULE BsProgressProofs --------------------------
(* Proofs about the progress reports of BsCore on their way from the jobs  *)
(* through core_msg_sock to the table, for every table, number of jobs and *)
(* capacity of the socket.                                                 *)
EXTENDS BsCoreProofs

(***************************************************************************)
(* The trail of an application: the value it shows (place -1), the report  *)
(* the core thread is working on (place 0) and those in the socket, which  *)
(* come after it in the order they were written.                           *)
(***************************************************************************)
OnTrail(s, n) ==
    \/ n = -1
    \/ n = 0 /\ IsUpdate(core_req, s)
    \/ n \in 1 .. Len(core_sock) /\ IsUpdate(core_sock[n], s)

Value(s, n) ==
    IF n = -1 THEN progress[s]
    ELSE IF n = 0 THEN core_req.progress_percent
    ELSE core_sock[n].progress_percent

LastOnTrail(s, n) ==
    OnTrail(s, n) /\ \A m \in Int : OnTrail(s, m) => m <= n

HasJob(s) == \E j \in JobIds : job[j].app = s

Lone(s) == \A j, k \in JobIds : job[j].app = s /\ job[k].app = s => j = k

(* Nothing is on the trail of an application without a job.                *)
NoJobNoTrail(s) ==
    IF HasJob(s) THEN Local(s)
    ELSE progress[s] = 0 /\ \A n \in Int : OnTrail(s, n) => n = -1

(* The trail ends with what a job of the application wrote last.           *)
TrailEnds(s) ==
    HasJob(s) =>
        \E j \in JobIds, n \in Int :
            /\ job[j].app = s /\ LastOnTrail(s, n)
            /\ Value(s, n) = job[j].sent

(* The trail of a single job only goes up.                                 *)
TrailRises(s) ==
    Lone(s) =>
        /\ \A m, n \in Int :
            OnTrail(s, m) /\ OnTrail(s, n) /\ m <= n => Value(s, m) <= Value(s, n)
        /\ \A j \in JobIds, n \in Int :
            job[j].app = s /\ OnTrail(s, n) => Value(s, n) <= job[j].sent

Trail(s) == NoJobNoTrail(s) /\ TrailEnds(s) /\ TrailRises(s)

(* A job never has less to write than it wrote.                            *)
JobRises ==
    \A j \in JobIds :
        /\ job[j].pc = "none" => job[j].app = NoApp
        /\ job[j].pc \in {"popen", "failing"} => job[j].sent = 0
        /\ job[j].pc = "lines" => job[j].sent <= job[j].progress

TrailInv ==
    /\ \A s \in Slots : Trail(s)
    /\ JobRises

(***************************************************************************)
(* The trail survives a step that moves its reports without changing their *)
(* order: f[n] is the place where the report at place n was before.        *)
(***************************************************************************)
JobsKept(s) ==
    \A j \in JobIds : /\ job'[j].app = s <=> job[j].app = s
                      /\ job[j].app = s => job'[j].sent = job[j].sent

LEMMA TrailKept ==
    ASSUME NEW s, Trail(s), JobsKept(s), NEW f \in [Int -> Int],
           \A n \in Int : OnTrail(s, n)' =>
                OnTrail(s, f[n]) /\ Value(s, n)' = Value(s, f[n]),
           \A m, n \in Int :
                OnTrail(s, m)' /\ OnTrail(s, n)' /\ m < n => f[m] < f[n],
           \A n \in Int : OnTrail(s, n) =>
                \E m \in Int : OnTrail(s, m)' /\ n <= f[m]
    PROVE  Trail(s)'
<1>1. (HasJob(s)' <=> HasJob(s)) /\ (Lone(s)' <=> Lone(s))
    BY DEF JobsKept, HasJob, Lone
<1>2. OnTrail(s, -1)' /\ Value(s, -1)' = progress'[s] /\ Value(s, -1) = progress[s]
    BY DEF OnTrail, Value
<1>3. \A m, n \in Int :
        OnTrail(s, m)' /\ OnTrail(s, n)' /\ m <= n => f[m] <= f[n]
    <2> SUFFICES ASSUME NEW m \in Int, NEW n \in Int,
                        OnTrail(s, m)', OnTrail(s, n)', m <= n
                 PROVE  f[m] <= f[n]
        OBVIOUS
    <2>1. CASE m < n
        BY <2>1
    <2>2. CASE m = n
        BY <2>2
    <2> QED
        BY <2>1, <2>2
<1>4. NoJobNoTrail(s)'
    <2>1. CASE HasJob(s)
        BY <1>1, <2>1 DEF Trail, NoJobNoTrail
    <2>2. CASE ~HasJob(s)
        <3>1. \A n \in Int : OnTrail(s, n)' => f[n] = -1
            BY <2>2 DEF Trail, NoJobNoTrail
        <3>2. f[-1] = -1 /\ progress'[s] = 0
            BY <1>2, <2>2, <3>1 DEF Trail, NoJobNoTrail
        <3>3. \A n \in Int : OnTrail(s, n)' => n = -1
            BY <1>2, <3>1
        <3> QED
            BY <1>1, <2>2, <3>2, <3>3 DEF NoJobNoTrail
    <2> QED
        BY <2>1, <2>2
<1>5. TrailEnds(s)'
    <2> SUFFICES ASSUME HasJob(s)
                 PROVE  \E j \in JobIds, n \in Int :
                            /\ job'[j].app = s /\ LastOnTrail(s, n)'
                            /\ Value(s, n)' = job'[j].sent
        BY <1>1 DEF TrailEnds
    <2>1. PICK j \in JobIds, n \in Int :
            /\ job[j].app = s /\ LastOnTrail(s, n)
            /\ Value(s, n) = job[j].sent
        BY DEF Trail, TrailEnds
    <2>2. PICK m \in Int : OnTrail(s, m)' /\ n <= f[m]
        BY <2>1 DEF LastOnTrail
    <2>3. f[m] \in Int /\ OnTrail(s, f[m]) /\ Value(s, m)' = Value(s, f[m])
        BY <2>2
    <2>4. f[m] = n
        BY <2>1, <2>2, <2>3 DEF LastOnTrail
    <2>5. ASSUME NEW i \in Int, OnTrail(s, i)'
          PROVE  i <= m
        <3>1. f[i] \in Int /\ OnTrail(s, f[i])
            BY <2>5
        <3>2. f[i] <= n
            BY <2>1, <3>1 DEF LastOnTrail
        <3> QED
            BY <2>2, <2>4, <2>5, <3>1, <3>2
    <2>6. LastOnTrail(s, m)'
        BY <2>2, <2>5 DEF LastOnTrail
    <2>7. job'[j].app = s /\ job'[j].sent = job[j].sent
        BY <2>1 DEF JobsKept
    <2> QED
        BY <2>1, <2>3, <2>4, <2>6, <2>7
<1>6. TrailRises(s)'
    <2> SUFFICES ASSUME Lone(s)
                 PROVE  /\ \A m, n \in Int :
                            OnTrail(s, m)' /\ OnTrail(s, n)' /\ m <= n
                                => Value(s, m)' <= Value(s, n)'
                        /\ \A j \in JobIds, n \in Int :
                            job'[j].app = s /\ OnTrail(s, n)'
                                => Value(s, n)' <= job'[j].sent
        BY <1>1 DEF TrailRises
    <2>1. /\ \A m, n \in Int :
                OnTrail(s, m) /\ OnTrail(s, n) /\ m <= n
                    => Value(s, m) <= Value(s, n)
          /\ \A j \in JobIds, n \in Int :
                job[j].app = s /\ OnTrail(s, n) => Value(s, n) <= job[j].sent
        BY DEF Trail, TrailRises
    <2>2. ASSUME NEW m \in Int, NEW n \in Int,
                 OnTrail(s, m)', OnTrail(s, n)', m <= n
          PROVE  Value(s, m)' <= Value(s, n)'
        <3>1. /\ OnTrail(s, f[m]) /\ Value(s, m)' = Value(s, f[m])
              /\ OnTrail(s, f[n]) /\ Value(s, n)' = Value(s, f[n])
            BY <2>2
        <3>2. f[m] \in Int /\ f[n] \in Int /\ f[m] <= f[n]
            BY <1>3, <2>2
        <3> QED
            BY <2>1, <3>1, <3>2
    <2>3. ASSUME NEW j \in JobIds, NEW n \in Int,
                 job'[j].app = s, OnTrail(s, n)'
          PROVE  Value(s, n)' <= job'[j].sent
        <3>1. OnTrail(s, f[n]) /\ Value(s, n)' = Value(s, f[n]) /\ f[n] \in Int
            BY <2>3
        <3>2. job[j].app = s /\ job'[j].sent = job[j].sent
            BY <2>3 DEF JobsKept
        <3> QED
            BY <2>1, <3>1, <3>2
    <2> QED
        BY <2>2, <2>3
<1> QED
    BY <1>4, <1>5, <1>6 DEF Trail

(* A step that leaves the reports of s where they are.                     *)
LEMMA TrailStays ==
    ASSUME NEW s, Trail(s), JobsKept(s),
           \A n \in Int : OnTrail(s, n)' <=> OnTrail(s, n),
           \A n \in Int : OnTrail(s, n) => Value(s, n)' = Value(s, n)
    PROVE  Trail(s)'
<1> DEFINE f == [n \in Int |-> n]
<1>1. f \in [Int -> Int] /\ \A n \in Int : f[n] = n
    OBVIOUS
<1> HIDE DEF f
<1>2. \A n \in Int : OnTrail(s, n)' =>
        OnTrail(s, f[n]) /\ Value(s, n)' = Value(s, f[n])
    BY <1>1
<1>3. \A m, n \in Int :
        OnTrail(s, m)' /\ OnTrail(s, n)' /\ m < n => f[m] < f[n]
    BY <1>1
<1>4. ASSUME NEW n \in Int, OnTrail(s, n)
      PROVE  \E m \in Int : OnTrail(s, m)' /\ n <= f[m]
    <2>1. OnTrail(s, n)' /\ n <= f[n]
        BY <1>1, <1>4
    <2> QED
        BY <2>1
<1> QED
    BY <1>1, <1>2, <1>3, <1>4, TrailKept
(***************************************************************************)
(* The steps that touch core_msg_sock, the request in hand or the value    *)
(* shown, for an application s.                                            *)
(***************************************************************************)
(* A request that is no report for s is written.                           *)
LEMMA OtherWritten ==
    ASSUME TypeInv, NEW s, Trail(s), JobsKept(s), NEW r \in CoreRequest,
           core_sock' = Append(core_sock, r), ~IsUpdate(r, s),
           UNCHANGED <<core_req, progress>>
    PROVE  Trail(s)'
<1>1. /\ Len(core_sock) \in Nat
      /\ Len(core_sock') = Len(core_sock) + 1
      /\ core_sock'[Len(core_sock) + 1] = r
      /\ \A i \in 1 .. Len(core_sock) : core_sock'[i] = core_sock[i]
    BY WriteSock, LenProperties DEF TypeInv, TypeOK
<1>2. ASSUME NEW n \in Int
      PROVE  OnTrail(s, n)' <=> OnTrail(s, n)
    <2>1. CASE n = Len(core_sock) + 1
        <3>1. n # -1 /\ n # 0 /\ n \notin 1 .. Len(core_sock)
            BY <1>1, <2>1
        <3>2. ~IsUpdate(core_sock'[n], s)
            BY <1>1, <2>1 DEF IsUpdate
        <3> QED
            BY <3>1, <3>2 DEF OnTrail, IsUpdate
    <2>2. CASE n # Len(core_sock) + 1
        <3>1. n \in 1 .. Len(core_sock') <=> n \in 1 .. Len(core_sock)
            BY <1>1, <2>2
        <3>2. n \in 1 .. Len(core_sock) => core_sock'[n] = core_sock[n]
            BY <1>1
        <3> QED
            BY <3>1, <3>2 DEF OnTrail, IsUpdate
    <2> QED
        BY <2>1, <2>2
<1>3. ASSUME NEW n \in Int, OnTrail(s, n)
      PROVE  Value(s, n)' = Value(s, n)
    BY <1>1, <1>3 DEF OnTrail, Value
<1> QED
    BY <1>2, <1>3, TrailStays

(* The core thread is done with a request that is no report for s.         *)
LEMMA OtherHandled ==
    ASSUME NEW s, Trail(s), JobsKept(s),
           ~IsUpdate(core_req, s), core_req' = NoReq,
           UNCHANGED core_sock, progress'[s] = progress[s]
    PROVE  Trail(s)'
<1>1. ~IsUpdate(core_req', s)
    BY NoReqType DEF IsUpdate
<1>2. \A n \in Int : OnTrail(s, n)' <=> OnTrail(s, n)
    BY <1>1 DEF OnTrail, IsUpdate
<1>3. \A n \in Int : OnTrail(s, n) => Value(s, n)' = Value(s, n)
    BY DEF OnTrail, Value
<1> QED
    BY <1>2, <1>3, TrailStays

(* The oldest request in the socket is taken in hand: every place moves    *)
(* down by one.                                                            *)
LEMMA ReadTrail ==
    ASSUME TypeInv, NEW s, Trail(s), CoreRead
    PROVE  Trail(s)'
<1> DEFINE f == [n \in Int |-> IF n = -1 THEN -1 ELSE n + 1]
<1>1. f \in [Int -> Int] /\ \A n \in Int : f[n] = IF n = -1 THEN -1 ELSE n + 1
    OBVIOUS
<1> HIDE DEF f
<1>2. /\ core_req' = core_sock[1]
      /\ Len(core_sock) \in Nat \ {0}
      /\ Len(core_sock') = Len(core_sock) - 1
      /\ \A i \in 1 .. Len(core_sock') : core_sock'[i] = core_sock[i + 1]
      /\ ~IsUpdate(core_req, s)
      /\ UNCHANGED <<progress, job>>
    BY ReadSock, NoReqType
       DEF CoreRead, TypeInv, TypeOK, IsUpdate, tableVars
<1>3. ASSUME NEW n \in Int, OnTrail(s, n)'
      PROVE  OnTrail(s, f[n]) /\ Value(s, n)' = Value(s, f[n])
    <2>1. CASE n = -1
        BY <1>1, <1>2, <2>1 DEF OnTrail, Value
    <2>2. CASE n = 0
        <3>1. f[n] = 1 /\ 1 \in 1 .. Len(core_sock)
            BY <1>1, <1>2, <2>2
        <3>2. IsUpdate(core_sock[1], s)
            BY <1>2, <1>3, <2>2 DEF OnTrail, IsUpdate
        <3> QED
            BY <1>2, <2>2, <3>1, <3>2 DEF OnTrail, Value
    <2>3. CASE n \in 1 .. Len(core_sock')
        <3>1. f[n] = n + 1 /\ n + 1 \in 1 .. Len(core_sock)
            BY <1>1, <1>2, <2>3
        <3>2. core_sock'[n] = core_sock[n + 1]
            BY <1>2, <2>3
        <3>3. IsUpdate(core_sock[n + 1], s)
            BY <1>3, <2>3, <3>2 DEF OnTrail, IsUpdate
        <3> QED
            BY <2>3, <3>1, <3>2, <3>3 DEF OnTrail, Value
    <2> QED
        BY <1>3, <2>1, <2>2, <2>3 DEF OnTrail
<1>4. \A m, n \in Int :
        OnTrail(s, m)' /\ OnTrail(s, n)' /\ m < n => f[m] < f[n]
    <2>1. \A n \in Int : OnTrail(s, n)' => -1 <= n
        BY <1>2 DEF OnTrail
    <2> QED
        BY <1>1, <2>1
<1>5. ASSUME NEW n \in Int, OnTrail(s, n)
      PROVE  \E m \in Int : OnTrail(s, m)' /\ n <= f[m]
    <2>1. CASE n = -1
        <3>1. OnTrail(s, -1)' /\ n <= f[-1]
            BY <1>1, <2>1 DEF OnTrail
        <3> QED
            BY <3>1
    <2>2. CASE n = 1
        <3>1. IsUpdate(core_req', s)
            BY <1>2, <1>5, <2>2 DEF OnTrail, IsUpdate
        <3>2. OnTrail(s, 0)' /\ n <= f[0]
            BY <1>1, <2>2, <3>1 DEF OnTrail, IsUpdate
        <3> QED
            BY <3>2
    <2>3. CASE n \in 2 .. Len(core_sock)
        <3>0. /\ n \in 1 .. Len(core_sock)
              /\ n - 1 \in 1 .. Len(core_sock')
              /\ n - 1 + 1 = n /\ n # 0 /\ n # -1
              /\ n - 1 \in Int /\ n - 1 # -1 /\ n - 1 # 0
            BY <1>2, <2>3
        <3>1. n <= f[n - 1]
            BY <1>1, <3>0
        <3>2. core_sock'[n - 1] = core_sock[n]
            BY <1>2, <3>0
        <3>3. IsUpdate(core_sock[n], s)
            BY <1>5, <3>0 DEF OnTrail
        <3>4. OnTrail(s, n - 1)'
            BY <3>0, <3>2, <3>3 DEF OnTrail, IsUpdate
        <3> QED
            BY <3>0, <3>1, <3>4
    <2>4. n = -1 \/ n \in 1 .. Len(core_sock)
        BY <1>2, <1>5 DEF OnTrail
    <2> QED
        BY <1>2, <2>1, <2>2, <2>3, <2>4
<1>6. JobsKept(s)
    BY <1>2 DEF JobsKept
<1> QED
    BY <1>1, <1>3, <1>4, <1>5, <1>6, TrailKept

(* A report becomes the value its application shows.                       *)
LEMMA ApplyTrail ==
    ASSUME TypeInv, NEW s \in Slots, Trail(s), CoreTdrStatUpdate
    PROVE  Trail(s)'
<1> DEFINE t == FindApp(core_req.dev_id)
<1>1. /\ core_req.cmd = "TDR_STAT_UPDATE" /\ core_req' = NoReq
      /\ UNCHANGED <<core_sock, job>>
      /\ progress' = IF Local(t)
                     THEN [progress EXCEPT ![t] = core_req.progress_percent]
                     ELSE progress
    BY DEF CoreTdrStatUpdate, CoreHandles
<1>2. JobsKept(s)
    BY <1>1 DEF JobsKept
<1>3. CASE t # s
    <2>1. progress'[s] = progress[s]
        BY <1>1, <1>3, LocalApp DEF TypeInv, TypeOK
    <2> QED
        BY <1>1, <1>2, <1>3, <2>1, OtherHandled DEF IsUpdate
<1>4. CASE t = s
    <2>1. OnTrail(s, 0)
        BY <1>1, <1>4 DEF OnTrail, IsUpdate
    <2>2. Local(s)
        BY <2>1 DEF Trail, NoJobNoTrail
    <2>3. progress'[s] = core_req.progress_percent
        BY <1>1, <1>4, <2>2 DEF TypeInv, TypeOK
    <2> DEFINE f == [n \in Int |-> IF n = -1 THEN 0 ELSE n]
    <2>4. f \in [Int -> Int] /\ \A n \in Int : f[n] = IF n = -1 THEN 0 ELSE n
        OBVIOUS
    <2> HIDE DEF f
    <2>5. \A n \in Int : OnTrail(s, n)' => n = -1 \/ n \in 1 .. Len(core_sock)
        BY <1>1, NoReqType DEF OnTrail, IsUpdate
    <2>6. ASSUME NEW n \in Int, OnTrail(s, n)'
          PROVE  OnTrail(s, f[n]) /\ Value(s, n)' = Value(s, f[n])
        <3>1. CASE n = -1
            BY <2>1, <2>3, <2>4, <3>1 DEF Value
        <3>2. CASE n \in 1 .. Len(core_sock)
            <4>1. f[n] = n /\ n # -1 /\ n # 0
                BY <2>4, <3>2
            <4> QED
                BY <1>1, <2>6, <4>1 DEF OnTrail, Value, IsUpdate
        <3> QED
            BY <2>5, <2>6, <3>1, <3>2
    <2>7. \A m, n \in Int :
            OnTrail(s, m)' /\ OnTrail(s, n)' /\ m < n => f[m] < f[n]
        BY <2>4, <2>5
    <2>8. ASSUME NEW n \in Int, OnTrail(s, n)
          PROVE  \E m \in Int : OnTrail(s, m)' /\ n <= f[m]
        <3>1. CASE n = -1 \/ n = 0
            <4>1. OnTrail(s, -1)' /\ n <= f[-1]
                BY <2>4, <3>1 DEF OnTrail
            <4> QED
                BY <4>1
        <3>2. CASE n \in 1 .. Len(core_sock)
            <4>1. n # -1 /\ n # 0 /\ n <= f[n]
                BY <2>4, <3>2
            <4>2. OnTrail(s, n)'
                BY <1>1, <2>8, <4>1 DEF OnTrail, IsUpdate
            <4> QED
                BY <4>1, <4>2
        <3> QED
            BY <2>8, <3>1, <3>2 DEF OnTrail
    <2> QED
        BY <1>2, <2>4, <2>6, <2>7, <2>8, TrailKept
<1> QED
    BY <1>3, <1>4
LEMMA ValueType ==
    ASSUME TypeInv, NEW s \in Slots, NEW n, OnTrail(s, n)
    PROVE  Value(s, n) \in Percent
<1>1. /\ \A i \in 1 .. Len(core_sock) : core_sock[i] \in CoreRequest
      /\ core_req \in CoreRequest
      /\ progress[s] \in Percent
    BY DEF TypeInv, TypeOK
<1>2. \A r \in CoreRequest : r.progress_percent \in Percent
    BY DEF CoreRequest
<1> QED
    BY <1>1, <1>2 DEF OnTrail, Value

(* A job of s writes a report: it is the new end of the trail.             *)
LEMMA ReportWritten ==
    ASSUME TypeInv, NEW s \in Slots, Trail(s), NEW k \in JobIds, job[k].app = s,
           NEW r \in CoreRequest, IsUpdate(r, s),
           core_sock' = Append(core_sock, r),
           r.progress_percent \in Int, job[k].sent <= r.progress_percent,
           \A j \in JobIds : job'[j].app = job[j].app,
           \A j \in JobIds \ {k} : job'[j].sent = job[j].sent,
           job'[k].sent = r.progress_percent,
           UNCHANGED <<core_req, progress>>
    PROVE  Trail(s)'
<1> DEFINE p == r.progress_percent
<1>0. PICK last \in Int : last = Len(core_sock) + 1
    BY LenProperties DEF TypeInv, TypeOK
<1>1. /\ Len(core_sock) \in Nat
      /\ Len(core_sock') = last /\ core_sock'[last] = r
      /\ \A i \in 1 .. Len(core_sock) : core_sock'[i] = core_sock[i]
    BY <1>0, WriteSock, LenProperties DEF TypeInv, TypeOK
<1>2. last \in Int /\ last # -1 /\ last # 0 /\ last \in 1 .. Len(core_sock')
    BY <1>0, <1>1
<1>3. OnTrail(s, last)' /\ Value(s, last)' = p
    <2>1. IsUpdate(core_sock'[last], s)
        BY <1>1
    <2> QED
        BY <1>1, <1>2, <2>1 DEF OnTrail, Value, IsUpdate
<1>4. ASSUME NEW n \in Int, OnTrail(s, n)', n # last
      PROVE  OnTrail(s, n) /\ Value(s, n)' = Value(s, n) /\ n < last
    <2>1. CASE n \in {-1, 0}
        BY <1>0, <1>1, <1>4, <2>1 DEF OnTrail, Value, IsUpdate
    <2>2. CASE n \in 1 .. Len(core_sock)
        BY <1>0, <1>1, <1>4, <2>2 DEF OnTrail, Value, IsUpdate
    <2>3. n \in {-1, 0} \/ n \in 1 .. Len(core_sock)
        BY <1>0, <1>1, <1>4 DEF OnTrail
    <2> QED
        BY <2>1, <2>2, <2>3
<1>5. HasJob(s) /\ HasJob(s)' /\ (Lone(s)' <=> Lone(s))
    BY DEF HasJob, Lone
<1>6. LastOnTrail(s, last)'
    <2>1. \A n \in Int : OnTrail(s, n)' => n <= last
        BY <1>2, <1>4
    <2> QED
        BY <1>3, <2>1 DEF LastOnTrail
<1>7. TrailEnds(s)'
    <2>1. job'[k].app = s /\ Value(s, last)' = job'[k].sent
        BY <1>3
    <2> QED
        BY <1>2, <1>6, <2>1 DEF TrailEnds
<1>8. TrailRises(s)'
    <2> SUFFICES ASSUME Lone(s)
                 PROVE  /\ \A m, n \in Int :
                            OnTrail(s, m)' /\ OnTrail(s, n)' /\ m <= n
                                => Value(s, m)' <= Value(s, n)'
                        /\ \A j \in JobIds, n \in Int :
                            job'[j].app = s /\ OnTrail(s, n)'
                                => Value(s, n)' <= job'[j].sent
        BY <1>5 DEF TrailRises
    <2>1. /\ \A m, n \in Int :
                OnTrail(s, m) /\ OnTrail(s, n) /\ m <= n
                    => Value(s, m) <= Value(s, n)
          /\ \A n \in Int : OnTrail(s, n) => Value(s, n) <= job[k].sent
        BY DEF Trail, TrailRises
    <2>2. \A n \in Int : OnTrail(s, n) => Value(s, n) \in Int
        BY ValueType DEF Percent
    <2>3. job[k].sent \in Int
        <3>1. job[k] \in Job
            BY DEF TypeInv, TypeOK
        <3> QED
            BY <3>1 DEF Job, Percent
    <2>4. ASSUME NEW n \in Int, OnTrail(s, n)'
          PROVE  Value(s, n)' <= p
        <3>1. CASE n = last
            <4>1. p <= p
                OBVIOUS
            <4> QED
                BY <1>3, <3>1, <4>1
        <3>2. CASE n # last
            <4>1. /\ OnTrail(s, n) /\ Value(s, n)' = Value(s, n)
                  /\ Value(s, n) \in Int /\ Value(s, n) <= job[k].sent
                BY <1>4, <2>1, <2>2, <2>4, <3>2
            <4> QED
                BY <2>3, <4>1
        <3> QED
            BY <3>1, <3>2
    <2>5. ASSUME NEW m \in Int, NEW n \in Int,
                 OnTrail(s, m)', OnTrail(s, n)', m <= n
          PROVE  Value(s, m)' <= Value(s, n)'
        <3>1. CASE n = last
            BY <1>3, <2>4, <2>5, <3>1
        <3>2. CASE n # last
            <4>1. /\ OnTrail(s, n) /\ Value(s, n)' = Value(s, n)
                  /\ n < last
                BY <1>4, <2>5, <3>2
            <4>2. m # last
                BY <1>2, <2>5, <4>1
            <4>3. OnTrail(s, m) /\ Value(s, m)' = Value(s, m)
                BY <1>4, <2>5, <4>2
            <4> QED
                BY <2>1, <2>5, <4>1, <4>3
        <3> QED
            BY <3>1, <3>2
    <2>6. ASSUME NEW j \in JobIds, NEW n \in Int,
                 job'[j].app = s, OnTrail(s, n)'
          PROVE  Value(s, n)' <= job'[j].sent
        <3>1. j = k
            BY <2>6 DEF Lone
        <3> QED
            BY <2>4, <2>6, <3>1
    <2> QED
        BY <2>5, <2>6
<1>9. NoJobNoTrail(s)'
    BY <1>5 DEF Trail, NoJobNoTrail
<1> QED
    BY <1>7, <1>8, <1>9 DEF Trail
(* A job is started for s: it has written nothing yet, and if it is the    *)
(* first one s still shows 0.                                              *)
LEMMA JobStarted ==
    ASSUME TypeInv, NEW s \in Slots, Trail(s), NEW k \in JobIds, NEW t \in Slots,
           job[k].app = NoApp, Local(t),
           job' = [job EXCEPT ![k] = JobRecord(t, "popen")],
           UNCHANGED <<core_sock, progress>>,
           ~IsUpdate(core_req, s), core_req' = NoReq
    PROVE  Trail(s)'
<1>1. /\ job'[k].app = t /\ job'[k].sent = 0
      /\ \A j \in JobIds \ {k} : job'[j] = job[j]
    BY DEF TypeInv, TypeOK, JobRecord
<1>2. job[k].app # s
    BY TableAssumption
<1>3. CASE s # t
    <2>1. JobsKept(s)
        BY <1>1, <1>2, <1>3 DEF JobsKept
    <2> QED
        BY <2>1, OtherHandled
<1>4. CASE s = t
    <2>1. ~IsUpdate(core_req', s)
        BY NoReqType DEF IsUpdate
    <2>2. \A n \in Int : OnTrail(s, n)' <=> OnTrail(s, n)
        BY <2>1 DEF OnTrail, IsUpdate
    <2>3. \A n \in Int : OnTrail(s, n) => Value(s, n)' = Value(s, n)
        BY DEF OnTrail, Value
    <2>4. HasJob(s)'
        BY <1>1, <1>4 DEF HasJob
    <2>5. NoJobNoTrail(s)'
        BY <1>4, <2>4 DEF NoJobNoTrail
    <2>6. CASE HasJob(s)
        <3>1. PICK j \in JobIds, n \in Int :
                /\ job[j].app = s /\ LastOnTrail(s, n)
                /\ Value(s, n) = job[j].sent
            BY <2>6 DEF Trail, TrailEnds
        <3>2. j # k /\ job'[j] = job[j]
            BY <1>1, <1>2, <3>1
        <3>3. LastOnTrail(s, n)' /\ Value(s, n)' = Value(s, n)
            BY <2>2, <2>3, <3>1 DEF LastOnTrail
        <3>4. TrailEnds(s)'
            BY <3>1, <3>2, <3>3 DEF TrailEnds
        <3>5. ~Lone(s)'
            BY <1>1, <1>4, <3>1, <3>2 DEF Lone
        <3> QED
            BY <2>5, <3>4, <3>5 DEF Trail, TrailRises
    <2>7. CASE ~HasJob(s)
        <3>1. progress[s] = 0 /\ \A n \in Int : OnTrail(s, n) => n = -1
            BY <2>7 DEF Trail, NoJobNoTrail
        <3>2. \A n \in Int : OnTrail(s, n)' => n = -1 /\ Value(s, n)' = 0
            BY <2>2, <3>1 DEF Value
        <3>3. OnTrail(s, -1)' /\ -1 \in Int /\ -1 <= -1 /\ 0 <= 0
            BY DEF OnTrail
        <3>4. \A j \in JobIds : job'[j].app = s => j = k
            BY <1>1, <2>7 DEF HasJob
        <3>5. TrailRises(s)'
            BY <1>1, <3>2, <3>3, <3>4 DEF TrailRises
        <3>6. LastOnTrail(s, -1)'
            BY <3>2, <3>3 DEF LastOnTrail
        <3>7. TrailEnds(s)'
            BY <1>1, <1>4, <3>2, <3>3, <3>6 DEF TrailEnds
        <3> QED
            BY <2>5, <3>5, <3>7 DEF Trail
    <2> QED
        BY <2>6, <2>7
<1> QED
    BY <1>3, <1>4
(* A job's own steps, by what they write.                                  *)
JobWrites(k, p) ==
    /\ WriteUpdate(k, p)
    /\ job'[k].sent = p
    /\ job[k].sent <= p

LEMMA JobStepTrail ==
    ASSUME PathInv, JobRises, NEW k \in JobIds, JobStep(k)
    PROVE  /\ job[k].pc # "none" /\ job[k].app \in Slots
           /\ \A j \in JobIds : job'[j].app = job[j].app
           /\ \A j \in JobIds \ {k} : job'[j] = job[j]
           /\ UNCHANGED <<core_req, progress>>
           /\ \/ UNCHANGED core_sock /\ job'[k].sent = job[k].sent
              \/ \E p \in Percent : JobWrites(k, p)
<1>1. /\ job \in [JobIds -> Job] /\ job[k] \in Job
      /\ TypeInv
    BY DEF PathInv, TypeInv, TypeOK
<1>2. /\ job[k].pc # "none" /\ job[k].app \in Slots
      /\ \A j \in JobIds : job'[j].app = job[j].app
      /\ \A j \in JobIds \ {k} : job'[j] = job[j]
    BY <1>1, JobKeeps DEF TypeInv
<1>3. UNCHANGED <<core_req, progress>>
    BY DEF JobStep, JobMoves, JobPopenFails, JobWriteFailure, JobPopen,
           JobLine, JobEof, JobPopen2Fails, JobPopen2, JobDone, JobReport,
           tableVars, coreVars
<1>4. /\ job[k].sent \in Percent /\ job[k].progress \in Percent
      /\ 0 \in Percent /\ 100 \in Percent
    BY <1>1, PercentValues DEF Job
<1>5. CASE JobWriteFailure(k)
    <2>1. job[k].sent = 0 /\ job'[k].sent = 0 /\ WriteUpdate(k, 0)
        BY <1>1, <1>5 DEF JobWriteFailure, JobMoves, JobRises, Job
    <2>2. JobWrites(k, 0)
        BY <2>1 DEF JobWrites
    <2> QED
        BY <1>2, <1>3, <1>4, <2>2
<1>6. CASE JobLine(k)
    <2>1. /\ job[k].sent <= job[k].progress
          /\ job'[k].sent = job[k].progress
          /\ WriteUpdate(k, job[k].progress)
        BY <1>1, <1>6 DEF JobLine, JobMoves, JobRises, Job
    <2>2. JobWrites(k, job[k].progress)
        BY <2>1 DEF JobWrites
    <2> QED
        BY <1>2, <1>3, <1>4, <2>2
<1>7. CASE JobDone(k)
    <2>1. /\ job'[k].sent = 100
          /\ WriteUpdate(k, 100)
        BY <1>1, <1>7 DEF JobDone, Job
    <2>2. JobWrites(k, 100)
        BY <1>4, <2>1 DEF JobWrites, Percent
    <2> QED
        BY <1>2, <1>3, <1>4, <2>2
<1>8. CASE \/ JobPopenFails(k) \/ JobPopen(k) \/ JobEof(k)
           \/ JobPopen2Fails(k) \/ JobPopen2(k) \/ JobReport(k)
    <2>1. UNCHANGED core_sock /\ job'[k].sent = job[k].sent
        BY <1>1, <1>8 DEF JobPopenFails, JobPopen, JobEof, JobPopen2Fails,
                          JobPopen2, JobReport, Job
    <2> QED
        BY <1>2, <1>3, <2>1
<1> QED
    BY <1>5, <1>6, <1>7, <1>8 DEF JobStep

LEMMA JobRisesStays ==
    ASSUME PathInv, JobRises, Next
    PROVE  JobRises'
<1>1. job \in [JobIds -> Job] /\ TypeInv
    BY DEF PathInv, TypeInv, TypeOK
<1>2. CASE UNCHANGED job
    BY <1>2 DEF JobRises
<1>3. ASSUME NEW k \in JobIds, JobStep(k)
      PROVE  JobRises'
    <2>1. job'[k].pc # "none" /\ \A j \in JobIds \ {k} : job'[j] = job[j]
        BY <1>1, <1>3, JobKeeps
    <2>2. /\ job[k] \in Job
          /\ job[k].sent \in Percent /\ job[k].progress \in Percent
          /\ job[k].progress # 100
          /\ job[k].pc \in {"popen", "failing"} => job[k].sent = 0
          /\ job[k].pc = "lines" => job[k].sent <= job[k].progress
        BY <1>1, <1>3, JobKeeps DEF Job, JobRises, PathInv, JobInv
    <2>3. job[k].progress <= Advance(job[k].progress)
        BY <2>2 DEF Advance, Percent
    <2>4. /\ job'[k].pc \in {"popen", "failing"} => job'[k].sent = 0
          /\ job'[k].pc = "lines" => job'[k].sent <= job'[k].progress
        <3>1. CASE JobLine(k)
            <4>1. /\ job'[k].pc = "lines" /\ job'[k].sent = job[k].progress
                  /\ job'[k].progress = Advance(job[k].progress)
                BY <1>1, <2>2, <3>1 DEF JobLine, JobMoves, Job
            <4> QED
                BY <2>3, <4>1
        <3>2. CASE JobPopen(k)
            <4>1. /\ job'[k].pc = "lines" /\ job'[k].sent = job[k].sent
                  /\ job'[k].progress = 0 /\ job[k].sent = 0
                BY <1>1, <2>2, <3>2 DEF JobPopen, JobMoves, Job
            <4> QED
                BY <4>1
        <3>3. CASE JobPopenFails(k)
            BY <1>1, <2>2, <3>3 DEF JobPopenFails, JobMoves, Job
        <3>4. CASE \/ JobWriteFailure(k) \/ JobEof(k) \/ JobPopen2Fails(k)
                   \/ JobPopen2(k) \/ JobDone(k) \/ JobReport(k)
            <4>1. job'[k].pc \in {"end", "popen2", "drain", "report"}
                BY <1>1, <2>2, <3>4
                   DEF JobWriteFailure, JobEof, JobPopen2Fails, JobPopen2,
                       JobDone, JobReport, Job
            <4> QED
                BY <4>1
        <3> QED
            BY <1>3, <3>1, <3>2, <3>3, <3>4 DEF JobStep
    <2> QED
        BY <2>1, <2>4 DEF JobRises
<1>4. ASSUME NEW k \in JobIds, NEW s \in Slots,
             job' = [job EXCEPT ![k] = JobRecord(s, "popen")]
      PROVE  JobRises'
    <2>1. /\ job'[k].pc = "popen" /\ job'[k].sent = 0
          /\ \A j \in JobIds \ {k} : job'[j] = job[j]
        BY <1>1, <1>4 DEF JobRecord
    <2> QED
        BY <2>1 DEF JobRises
<1> QED
    BY <1>1, <1>2, <1>3, <1>4, JobsStep

(* Every step does one of the things the lemmas above are about.           *)
LEMMA TrailStep ==
    ASSUME PathInv, TrailInv, Next, NEW s \in Slots
    PROVE  Trail(s)'
<1>1. TypeInv /\ Trail(s) /\ JobRises /\ http_req \in CoreRequest
    BY DEF PathInv, TypeInv, TypeOK, TrailInv
<1>2. CASE UNCHANGED <<core_sock, core_req, progress, job>>
    <2>1. JobsKept(s)
        BY <1>2 DEF JobsKept
    <2>2. \A n \in Int : OnTrail(s, n)' <=> OnTrail(s, n)
        BY <1>2 DEF OnTrail, IsUpdate
    <2>3. \A n \in Int : OnTrail(s, n) => Value(s, n)' = Value(s, n)
        BY <1>2 DEF OnTrail, Value
    <2> QED
        BY <1>1, <2>1, <2>2, <2>3, TrailStays
<1>3. CASE HttpWrite
    <2>1. /\ core_sock' = Append(core_sock, http_req)
          /\ UNCHANGED <<core_req, progress, job>>
        BY <1>3 DEF HttpWrite, tableVars, coreVars
    <2>2. ~IsUpdate(http_req, s)
        BY DEF IsUpdate, PathInv, RequestInv
    <2>3. JobsKept(s)
        BY <2>1 DEF JobsKept
    <2> QED
        BY <1>1, <2>1, <2>2, <2>3, OtherWritten
<1>4. CASE HttpStep /\ ~HttpWrite
    <2>1. UNCHANGED <<core_sock, core_req, progress, job>>
        BY <1>4 DEF HttpStep, PkgNew, TdrRun, UploadBegin, PartBegin,
                    PartData, UploadNextPart, UploadFinalize, UploadAbort,
                    HandlePartEnd, tableVars, coreVars
    <2> QED
        BY <1>2, <2>1
<1>5. CASE CoreRead
    BY <1>1, <1>5, ReadTrail
<1>6. CASE CoreTdrStatUpdate
    BY <1>1, <1>6, ApplyTrail
<1>7. CASE CorePkgNew \/ CorePkgReady \/ CoreTdrRun
    <2>1. /\ core_req' = NoReq /\ UNCHANGED <<core_sock, progress>>
          /\ ~IsUpdate(core_req, s)
        BY <1>7 DEF CorePkgNew, CorePkgReady, CoreTdrRun, CoreHandles,
                    IsUpdate, tableVars
    <2>2. CASE UNCHANGED job
        <3>1. JobsKept(s)
            BY <2>2 DEF JobsKept
        <3> QED
            BY <1>1, <2>1, <3>1, OtherHandled
    <2>3. CASE StartTdr(core_req.dev_id) /\ ~UNCHANGED job
        <3> DEFINE t == FindApp(core_req.dev_id)
        <3>1. /\ t \in Slots /\ Local(t)
              /\ \E k \in JobIds :
                    /\ job[k].pc = "none"
                    /\ job' = [job EXCEPT ![k] = JobRecord(t, "popen")]
            BY <2>3, LocalApp DEF StartTdr
        <3>2. PICK k \in JobIds :
                /\ job[k].app = NoApp
                /\ job' = [job EXCEPT ![k] = JobRecord(t, "popen")]
            BY <1>1, <3>1 DEF JobRises
        <3> QED
            BY <1>1, <2>1, <3>1, <3>2, JobStarted
    <2> QED
        BY <1>7, <2>2, <2>3 DEF CorePkgNew, CorePkgReady, CoreTdrRun
<1>8. CASE EthRead
    BY <1>2, <1>8 DEF EthRead, tableVars
<1>9. ASSUME NEW k \in JobIds, JobStep(k)
      PROVE  Trail(s)'
    <2>1. /\ job[k].pc # "none" /\ job[k].app \in Slots
          /\ \A j \in JobIds : job'[j].app = job[j].app
          /\ \A j \in JobIds \ {k} : job'[j] = job[j]
          /\ UNCHANGED <<core_req, progress>>
        BY <1>1, <1>9, JobStepTrail
    <2>2. CASE UNCHANGED core_sock /\ job'[k].sent = job[k].sent
        <3>1. JobsKept(s)
            BY <2>1, <2>2 DEF JobsKept
        <3>2. \A n \in Int : OnTrail(s, n)' <=> OnTrail(s, n)
            BY <2>1, <2>2 DEF OnTrail, IsUpdate
        <3>3. \A n \in Int : OnTrail(s, n) => Value(s, n)' = Value(s, n)
            BY <2>1, <2>2 DEF OnTrail, Value
        <3> QED
            BY <1>1, <3>1, <3>2, <3>3, TrailStays
    <2>3. ASSUME NEW p \in Percent, JobWrites(k, p)
          PROVE  Trail(s)'
        <3>1. /\ DevId[job[k].app] \in DevIds
              /\ FindApp(DevId[job[k].app]) = job[k].app
            BY <2>1, TableAssumption DEF PathInv, JobInv
        <3>2. PICK r \in CoreRequest :
                /\ core_sock' = Append(core_sock, r)
                /\ r.cmd = "TDR_STAT_UPDATE"
                /\ r.dev_id = DevId[job[k].app]
                /\ r.progress_percent = p
            BY <2>3, <3>1, RequestType DEF JobWrites, WriteUpdate, Cmds
        <3>3. CASE job[k].app = s
            <4>0. IsUpdate(r, s)
                BY <3>1, <3>2, <3>3 DEF IsUpdate
            <4>1. p \in Int /\ job[k].sent <= p /\ job'[k].sent = p
                BY <2>3 DEF JobWrites, Percent
            <4>2. \A j \in JobIds \ {k} : job'[j].sent = job[j].sent
                BY <2>1
            <4>3. r.progress_percent \in Int /\ job[k].sent <= r.progress_percent
                BY <3>2, <4>1
            <4>4. job'[k].sent = r.progress_percent
                BY <3>2, <4>1
            <4> QED
                BY <1>1, <2>1, <3>2, <3>3, <4>0, <4>2, <4>3, <4>4,
                   ReportWritten
        <3>4. CASE job[k].app # s
            <4>1. ~IsUpdate(r, s)
                BY <3>1, <3>2, <3>4 DEF IsUpdate
            <4>2. JobsKept(s)
                BY <2>1, <3>4 DEF JobsKept
            <4> QED
                BY <1>1, <2>1, <3>2, <4>1, <4>2, OtherWritten
        <3> QED
            BY <3>3, <3>4
    <2> QED
        BY <1>1, <1>9, <2>2, <2>3, JobStepTrail
<1> QED
    BY <1>3, <1>4, <1>5, <1>6, <1>7, <1>8, <1>9 DEF Next, CoreStep
LEMMA TrailInit == Init => TrailInv
<1> SUFFICES ASSUME Init
             PROVE  TrailInv
    OBVIOUS
<1>1. /\ \A j \in JobIds : job[j] = NoJob
      /\ NoJob.app = NoApp /\ NoJob.pc = "none"
    BY DEF Init, NoJob, JobRecord
<1>2. JobRises
    BY <1>1 DEF JobRises
<1>3. ASSUME NEW s \in Slots
      PROVE  Trail(s)
    <2>1. ~HasJob(s)
        BY <1>1, TableAssumption DEF HasJob
    <2>2. ~IsUpdate(core_req, s) /\ progress[s] = 0
        BY NoReqType DEF Init, IsUpdate
    <2>3. \A n \in Int : OnTrail(s, n) => n = -1
        BY <2>2, EmptySeq DEF OnTrail, Init
    <2>4. \A n \in Int : OnTrail(s, n) => Value(s, n) = 0
        BY <2>2, <2>3 DEF Value
    <2>5. TrailRises(s)
        <3>1. 0 <= 0
            OBVIOUS
        <3> QED
            BY <2>1, <2>4, <3>1 DEF TrailRises, HasJob
    <2> QED
        BY <2>1, <2>2, <2>3, <2>5 DEF Trail, NoJobNoTrail, TrailEnds
<1> QED
    BY <1>2, <1>3 DEF TrailInv

LEMMA TrailInductive == Spec => [](PathInv /\ TrailInv)
<1>1. Init => TrailInv
    BY TrailInit
<1>2. PathInv /\ TrailInv /\ [Next]_vars => TrailInv'
    <2>1. ASSUME PathInv, TrailInv, Next
          PROVE  TrailInv'
        BY <2>1, TrailStep, JobRisesStays DEF TrailInv
    <2>2. ASSUME TrailInv, UNCHANGED vars
          PROVE  TrailInv'
        BY <2>2 DEF TrailInv, Trail, NoJobNoTrail, TrailEnds, TrailRises,
                    JobRises, HasJob, Lone, OnTrail, LastOnTrail, Value,
                    IsUpdate, vars
    <2> QED
        BY <2>1, <2>2
<1> QED
    BY <1>1, <1>2, PathInductive, PTL DEF Spec

(***************************************************************************)
(* The end of the trail is what NoLostProgress calls the newest value.     *)
(***************************************************************************)
LEMMA NewestIsLast ==
    ASSUME TypeInv, NEW s, NEW n \in Int, LastOnTrail(s, n)
    PROVE  Newest(s) = Value(s, n)
<1> DEFINE queued == {i \in 1 .. Len(core_sock) : IsUpdate(core_sock[i], s)}
<1>1. Len(core_sock) \in Nat
    BY LenProperties DEF TypeInv, TypeOK
<1>2. \A i \in queued : i \in Int /\ i # -1 /\ i # 0 /\ 0 < i /\ OnTrail(s, i)
    BY <1>1 DEF OnTrail
<1>3. n \in Int /\ OnTrail(s, n) /\ \A m \in Int : OnTrail(s, m) => m <= n
    BY DEF LastOnTrail
<1>4. CASE queued # {}
    <2>1. PICK q \in queued : TRUE
        BY <1>4
    <2>2. 0 < n
        BY <1>2, <1>3, <2>1
    <2>3. n \in queued /\ n # -1 /\ n # 0
        BY <1>3, <2>2 DEF OnTrail
    <2>4. \A k \in queued : k <= n
        BY <1>2, <1>3
    <2>5. \A i \in queued : (\A k \in queued : k <= i) => i = n
        BY <1>2, <2>3, <2>4
    <2> DEFINE last == CHOOSE i \in queued : \A k \in queued : k <= i
    <2>6. last = n
        <3>1. last \in queued /\ \A k \in queued : k <= last
            BY <2>3, <2>4
        <3> QED
            BY <2>5, <3>1
    <2>7. Newest(s) = core_sock[last].progress_percent
        BY <1>4 DEF Newest
    <2> QED
        BY <2>3, <2>6, <2>7 DEF Value
<1>5. CASE queued = {}
    <2>1. n \in {-1, 0}
        BY <1>3, <1>5 DEF OnTrail
    <2>2. Newest(s) = IF IsUpdate(core_req, s) THEN core_req.progress_percent
                      ELSE progress[s]
        BY <1>5 DEF Newest
    <2>3. CASE IsUpdate(core_req, s)
        <3>1. OnTrail(s, 0)
            BY <2>3 DEF OnTrail
        <3>2. n = 0
            BY <1>3, <2>1, <3>1
        <3> QED
            BY <2>2, <2>3, <3>2 DEF Value
    <2>4. CASE ~IsUpdate(core_req, s)
        <3>1. n = -1
            BY <1>3, <2>1, <2>4 DEF OnTrail
        <3> QED
            BY <2>2, <2>4, <3>1 DEF Value
    <2> QED
        BY <2>3, <2>4
<1> QED
    BY <1>4, <1>5

(* What the core has heard last of an application was written by a job.    *)
LEMMA NewestIsWritten ==
    ASSUME PathInv, TrailInv, NEW s \in Slots
    PROVE  IF JobsOf(s) = {} THEN Newest(s) = 0
           ELSE \E j \in JobsOf(s) : Newest(s) = job[j].sent
<1>1. Trail(s) /\ TypeInv
    BY DEF TrailInv, PathInv
<1>2. CASE HasJob(s)
    <2>1. PICK j \in JobIds, n \in Int :
            /\ job[j].app = s /\ LastOnTrail(s, n)
            /\ Value(s, n) = job[j].sent
        BY <1>1, <1>2 DEF Trail, TrailEnds
    <2>2. j \in JobsOf(s) /\ Newest(s) = job[j].sent
        BY <1>1, <2>1, NewestIsLast DEF JobsOf
    <2> QED
        BY <2>2
<1>3. CASE ~HasJob(s)
    <2>1. progress[s] = 0 /\ \A n \in Int : OnTrail(s, n) => n = -1
        BY <1>1, <1>3 DEF Trail, NoJobNoTrail
    <2>2. -1 \in Int /\ LastOnTrail(s, -1) /\ Value(s, -1) = 0
        BY <2>1 DEF LastOnTrail, OnTrail, Value
    <2>3. Newest(s) = 0
        BY <1>1, <2>2, NewestIsLast
    <2>4. JobsOf(s) = {}
        BY <1>3 DEF JobsOf, HasJob
    <2> QED
        BY <2>3, <2>4
<1> QED
    BY <1>2, <1>3

LEMMA TrailImplies == PathInv /\ TrailInv => NoLostProgress
BY NewestIsWritten DEF NoLostProgress

(* No report is lost, overtaken or given to another application.           *)
THEOREM NoLostSafe == Spec => []NoLostProgress
BY TrailImplies, TrailInductive, PTL

(* A step that lowers the value an application shows finds two jobs.       *)
LEMMA FallsOnRerun ==
    ASSUME PathInv, TrailInv, Next, NEW s \in Slots,
           progress'[s] < progress[s]
    PROVE  \E j, k \in JobsOf(s) : j # k
<1> DEFINE t == FindApp(core_req.dev_id)
<1>0. TypeInv /\ Trail(s)
    BY DEF TrailInv, PathInv
<1>1. /\ TypeInv /\ Trail(s) /\ progress \in [Slots -> Percent]
      /\ progress[s] \in Int
    <2>1. progress \in [Slots -> Percent]
        BY <1>0 DEF TypeInv, TypeOK
    <2>2. progress[s] \in Int
        BY <2>1 DEF Percent
    <2> QED
        BY <1>0, <2>1, <2>2
<1>2. UNCHANGED progress \/ CoreTdrStatUpdate
    BY DEF Next, HttpStep, PkgNew, TdrRun, HttpWrite, UploadBegin,
           PartBegin, PartData, UploadNextPart, UploadFinalize,
           UploadAbort, HandlePartEnd, CoreStep, CoreRead, CorePkgNew,
           CoreTdrRun, CorePkgReady, EthRead, JobStep, JobMoves,
           JobPopenFails, JobWriteFailure, JobPopen, JobLine, JobEof,
           JobPopen2Fails, JobPopen2, JobDone, JobReport, tableVars
<1>3. ~UNCHANGED progress
    BY <1>1
<1>4. /\ core_req.cmd = "TDR_STAT_UPDATE"
      /\ progress' = IF Local(t)
                     THEN [progress EXCEPT ![t] = core_req.progress_percent]
                     ELSE progress
    BY <1>2, <1>3 DEF CoreTdrStatUpdate, CoreHandles
<1>5. s = t /\ progress'[s] = core_req.progress_percent
    <2>1. Local(t) /\ t \in Slots
        BY <1>3, <1>4, LocalApp
    <2>2. s = t
        BY <1>1, <1>4, <2>1
    <2> QED
        BY <1>1, <1>4, <2>1, <2>2
<1>6. /\ OnTrail(s, -1) /\ Value(s, -1) = progress[s]
      /\ OnTrail(s, 0) /\ Value(s, 0) = progress'[s]
      /\ Value(s, 0) \in Int
    <2>1. IsUpdate(core_req, s)
        BY <1>4, <1>5 DEF IsUpdate
    <2>2. OnTrail(s, 0) /\ Value(s, 0) = progress'[s]
        BY <1>5, <2>1 DEF OnTrail, Value
    <2>3. Value(s, 0) \in Int
        BY <1>1, <2>2, ValueType DEF Percent
    <2>4. OnTrail(s, -1) /\ Value(s, -1) = progress[s]
        BY DEF OnTrail, Value
    <2> QED
        BY <2>2, <2>3, <2>4
<1>7. ~Lone(s)
    <2>1. -1 \in Int /\ 0 \in Int /\ -1 <= 0
        OBVIOUS
    <2>2. ~(Value(s, -1) <= Value(s, 0))
        BY <1>1, <1>6
    <2> QED
        BY <1>1, <1>6, <2>1, <2>2 DEF Trail, TrailRises
<1> QED
    BY <1>7 DEF Lone, JobsOf

(* The value an application shows goes down only once a second job was     *)
(* started for it: the reports of one job are applied in the order written *)
(* and the job itself never writes less than before.                       *)
THEOREM ProgressRiseSafe == Spec => ProgressGoesBackOnlyOnRerun
<1>1. PathInv /\ TrailInv /\ [Next]_vars =>
        [\A s \in Slots : progress'[s] < progress[s] =>
            \E j, k \in JobsOf(s) : j # k]_vars
    BY FallsOnRerun DEF vars
<1> QED
    BY <1>1, TrailInductive, PTL DEF Spec, ProgressGoesBackOnlyOnRerun
=============================================================================
