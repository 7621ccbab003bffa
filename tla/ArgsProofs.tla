----------------------------- MODULE ArgsProofs -----------------------------
(***************************************************************************)
(* Proofs about the life of a benchmark's arguments, for every number of   *)
(* workers, of samples and of operations, and whichever calls may fail.    *)
(***************************************************************************)
EXTENDS Args, TLAPS

(* The memory object of a worker, once they are all made. *)
ObjectOf(t) == IF shared THEN 1 ELSE t + 1

Held == \A t \in Tids : memobj[t] = ObjectOf(t)

(* An object no worker has: with one for all, all but the first. *)
Spare(o) == shared /\ o # 1

Making == {"calloc", "vals", "create", "undo"}
Made == {"prepopulate", "fill", "run"}

(* Until all objects are made, the first i are, each for its worker. *)
MakingInv ==
  mpc \in Making =>
    /\ i < N
    /\ shared => i = 0
    /\ \A t \in Tids : memobj[t] = IF t < i THEN t + 1 ELSE NULL
    /\ \A o \in Objects : obj[o] = IF o <= i THEN "live" ELSE "none"

(* From then on every worker holds its object. *)
MadeInv ==
  mpc \in Made =>
    /\ i = 0
    /\ Held
    /\ \A o \in Objects : obj[o] = IF Spare(o) THEN "none" ELSE "live"

(* cleanup_args has been past the first i workers. *)
CleanupInv ==
  mpc = "cleanup" =>
    /\ Held
    /\ last = IF i = 0 THEN NULL ELSE ObjectOf(i - 1)
    /\ \A o \in Objects :
         obj[o] = IF Spare(o) THEN "none"
                  ELSE IF i > 0 /\ (shared \/ o <= i) THEN "destroyed" ELSE "live"

(* What is left when the benchmark is over, on whatever path. *)
OverInv ==
  /\ mpc \notin {"cleanup", "returned"} => last = NULL
  /\ ret = "ok" => mpc = "returned" /\ \A o \in Objects : obj[o] # "live"
  /\ \A o \in Objects : obj[o] # "twice"

ObjInv == MakingInv /\ MadeInv /\ CleanupInv /\ OverInv

(* The array is there before anything is recorded. *)
ValsInv == mpc \in {"create", "prepopulate", "fill", "run"} => (stats > 0 => vals)

(* Nothing is recorded before the run. *)
QuietInv ==
  mpc \in Making \union {"prepopulate", "fill", "crashed"} =>
    /\ \A t \in Tids : idx[t] = 0
    /\ \A k \in 0..(N * MaxStats - 1) : values[k] = NoSample

(* A worker has recorded at most as many samples as its part holds, has left *)
(* out its first operations, and will record the next no sooner than Delta   *)
(* after the last.                                                           *)
RecordInv ==
  \A t \in Tids :
    /\ idx[t] <= stats
    /\ mpc = "run" => calls[t] + dryrun[t] >= Dryrun
    /\ idx[t] > 0 => next[t] = values[Segment(t) + (idx[t] - 1)].elapsed + Delta

IInv == TypeOK /\ ObjInv /\ ValsInv /\ QuietInv /\ RecordInv /\ SamplesInPart /\ SamplesSpaced

------------------------------------------------------------------------------
(* The parts of the array. *)

LEMMA Bounds == N \in Nat \ {0} /\ MaxStats \in Nat /\ Dryrun \in Nat /\ Delta \in Nat
                /\ MaxTime \in Nat /\ MaxCalls \in Nat /\ Prepopulate \in Nat
  BY ArgsAssumption

(* A multiplication is monotonic: the one nonlinear fact needed.              *)
LEMMA TimesMonotonic ==
  ASSUME NEW r \in Nat, NEW a \in Nat, NEW b \in Nat, a <= b
  PROVE  r * a \in Nat /\ r * a <= r * b
  <1>1. PICK d \in Nat : b = a + d
    <2>1. b - a \in Nat /\ b = a + (b - a)
      OBVIOUS
    <2> QED BY <2>1
  <1>2. r * b = r * a + r * d
    BY <1>1
  <1>3. r * d \in Nat /\ r * a \in Nat
    BY <1>1
  <1> QED BY <1>2, <1>3

(* The part of a worker ends where the next one's begins, and all are in the  *)
(* array.                                                                     *)
LEMMA SegmentInArray ==
  ASSUME NEW s \in 0..MaxStats, NEW t \in Tids, NEW n \in 0..(s - 1)
  PROVE  s * t + n \in 0..(N * MaxStats - 1)
  <1>1. t \in Nat /\ t + 1 \in Nat /\ t + 1 <= N /\ s \in Nat /\ s <= MaxStats
    BY Bounds DEF Tids
  <1>2. s * (t + 1) = s * t + s
    BY <1>1
  <1>3. s * t \in Nat /\ s * (t + 1) \in Nat /\ s * (t + 1) <= s * N
    BY <1>1, Bounds, TimesMonotonic
  <1>4. N * s \in Nat /\ N * s <= N * MaxStats
    BY <1>1, Bounds, TimesMonotonic
  <1>5. s * N = N * s
    BY <1>1, Bounds
  <1>6. N * MaxStats \in Nat
    BY Bounds
  <1> DEFINE A == s * t
             B == s * (t + 1)
             C == s * N
             D == N * s
             E == N * MaxStats
  <1>7. A \in Nat /\ B = A + s /\ B <= C /\ C = D /\ D <= E /\ E \in Nat /\ D \in Nat
    BY <1>2, <1>3, <1>4, <1>5, <1>6
  <1> HIDE DEF A, B, C, D, E
  <1>8. A + n \in 0..(E - 1)
    BY <1>1, <1>7
  <1> QED BY <1>8 DEF A, E

LEMMA SegmentsApart ==
  ASSUME NEW s \in Nat, NEW t \in Tids, NEW u \in Tids,
         NEW n \in 0..(s - 1), NEW m \in 0..(s - 1), t < u
  PROVE  s * t + n < s * u + m
  <1>1. t \in Nat /\ u \in Nat /\ t + 1 \in Nat /\ t + 1 <= u
    BY Bounds DEF Tids
  <1>2. s * (t + 1) = s * t + s
    BY <1>1
  <1>3. s * t \in Nat /\ s * (t + 1) \in Nat /\ s * (t + 1) <= s * u /\ s * u \in Nat
    BY <1>1, TimesMonotonic
  <1> DEFINE A == s * t
             B == s * (t + 1)
             C == s * u
  <1>4. A \in Nat /\ C \in Nat /\ B = A + s /\ B <= C
    BY <1>2, <1>3
  <1> HIDE DEF A, B, C
  <1>5. A + n < C + m
    BY <1>4
  <1> QED BY <1>5 DEF A, C

LEMMA SegmentsDisjoint ==
  ASSUME NEW s \in Nat, NEW t \in Tids, NEW u \in Tids,
         NEW n \in 0..(s - 1), NEW m \in 0..(s - 1), s * t + n = s * u + m
  PROVE  t = u /\ n = m
  <1>1. s * t \in Nat /\ s * u \in Nat /\ t \in Nat /\ u \in Nat
    <2>1. t \in Nat /\ u \in Nat
      BY Bounds DEF Tids
    <2> QED BY <2>1
  <1> DEFINE A == s * t
             C == s * u
  <1>2. ~(t < u) /\ ~(u < t)
    <2>1. t < u => A + n < C + m
      BY SegmentsApart
    <2>2. u < t => C + m < A + n
      BY SegmentsApart
    <2>3. A \in Nat /\ C \in Nat /\ A + n = C + m
      BY <1>1
    <2> HIDE DEF A, C
    <2> QED BY <2>1, <2>2, <2>3
  <1>3. t = u
    BY <1>1, <1>2
  <1>4. A = C /\ A \in Nat /\ A + n = C + m
    BY <1>1, <1>3
  <1> HIDE DEF A, C
  <1>5. n = m
    BY <1>4
  <1> QED BY <1>3, <1>5

------------------------------------------------------------------------------
(* The steps that record nothing. *)

RecordOK == QuietInv /\ RecordInv /\ SamplesInPart /\ SamplesSpaced

LEMMA InitIInv == Init => IInv
  <1> SUFFICES ASSUME Init PROVE IInv
    OBVIOUS
  <1>1. TypeOK
    <2>1. NoSample \in [tid : Tids \union {-1}, elapsed : 0..MaxTime, ops : 0..MaxCalls]
      BY Bounds DEF NoSample
    <2>2. vals \in BOOLEAN
      BY DEF Init
    <2> QED BY <2>1, <2>2, Bounds DEF Init, TypeOK
  <1>2. ObjInv
    <2>1. \A t \in Tids : ~(t < 0) /\ memobj[t] = NULL
      BY Bounds DEF Init, Tids
    <2>2. \A o \in Objects : ~(o <= 0) /\ obj[o] = "none"
      BY Bounds DEF Init, Objects
    <2> QED BY <2>1, <2>2, Bounds DEF Init, ObjInv, MakingInv, MadeInv, CleanupInv, OverInv, Made
  <1>3. ValsInv /\ QuietInv /\ RecordInv
    BY Bounds DEF Init, ValsInv, QuietInv, RecordInv
  <1>4. SamplesInPart
    <2> SUFFICES ASSUME NEW t \in Tids, NEW n \in 0..(stats - 1)
                 PROVE  ~(n < idx[t]) /\ values[Segment(t) + n] = NoSample
      BY DEF SamplesInPart
    <2>1. Segment(t) + n \in 0..(N * MaxStats - 1)
      BY SegmentInArray DEF Init, Segment
    <2> QED BY <2>1 DEF Init
  <1>5. SamplesSpaced
    BY DEF Init, SamplesSpaced
  <1> QED BY <1>1, <1>2, <1>3, <1>4, <1>5 DEF IInv

(* Before the run, or after it, nothing recorded changes.                     *)
LEMMA RecordKept ==
  ASSUME TypeOK, RecordOK, UNCHANGED <<stats, calls, dryrun, idx, next, values>>,
         mpc' = "run" => mpc = "run",
         mpc' \in Making \union {"prepopulate", "fill", "crashed"} =>
           mpc \in Making \union {"prepopulate", "fill", "crashed"}
  PROVE  RecordOK'
  <1>1. QuietInv'
    BY DEF RecordOK, QuietInv
  <1>2. RecordInv'
    BY DEF RecordOK, RecordInv, Segment
  <1>3. SamplesInPart' /\ SamplesSpaced'
    BY DEF RecordOK, SamplesInPart, SamplesSpaced, Segment
  <1> QED BY <1>1, <1>2, <1>3 DEF RecordOK

LEMMA CallocIInv == ASSUME IInv, CallocArgs PROVE IInv'
  <1>1. TypeOK'
    BY DEF IInv, TypeOK, CallocArgs, config, record
  <1>2. ObjInv'
    BY DEF IInv, TypeOK, ObjInv, MakingInv, MadeInv, CleanupInv, OverInv, Making, Made,
           CallocArgs, config, record
  <1>3. ValsInv'
    BY DEF CallocArgs, ValsInv
  <1>4. RecordOK'
    BY RecordKept DEF IInv, RecordOK, CallocArgs, config, record, Making
  <1> QED BY <1>1, <1>2, <1>3, <1>4 DEF IInv, RecordOK

LEMMA CallocValsIInv == ASSUME IInv, CallocVals PROVE IInv'
  <1>0. vals' \in BOOLEAN /\ stats' \in 0..MaxStats /\ (stats' > 0 => vals')
    <2>1. CASE vals' = (stats > 0) /\ UNCHANGED stats
      <3>1. vals' \in BOOLEAN /\ (stats > 0 => vals')
        <4>1. CASE stats > 0
          BY <2>1, <4>1
        <4>2. CASE ~(stats > 0)
          BY <2>1, <4>2
        <4> QED BY <4>1, <4>2
      <3> QED BY <2>1, <3>1 DEF IInv, TypeOK
    <2>2. CASE stats' = 0 /\ UNCHANGED vals
      BY <2>2, Bounds DEF IInv, TypeOK
    <2> QED BY <2>1, <2>2 DEF CallocVals
  <1>1. TypeOK'
    BY <1>0, Bounds DEF IInv, TypeOK, CallocVals, record
  <1>2. ObjInv'
    BY DEF IInv, TypeOK, ObjInv, MakingInv, MadeInv, CleanupInv, OverInv, Making, Made, Spare,
           CallocVals, record
  <1>3. ValsInv'
    BY <1>0 DEF ValsInv
  <1>4. QuietInv'
    BY DEF IInv, QuietInv, CallocVals, record, Making
  <1>5. \A t \in Tids : idx[t] = 0 /\ idx'[t] = 0
    BY DEF IInv, QuietInv, CallocVals, record, Making
  <1>6. RecordInv'
    BY <1>1, <1>5, Bounds DEF RecordInv, TypeOK, CallocVals
  <1>7. SamplesInPart'
    <2> SUFFICES ASSUME NEW t \in Tids, NEW n \in 0..(stats' - 1)
                 PROVE  ~(n < idx'[t]) /\ values'[stats' * t + n] = NoSample
      BY DEF SamplesInPart, Segment
    <2>1. stats' * t + n \in 0..(N * MaxStats - 1)
      BY <1>1, SegmentInArray DEF TypeOK
    <2> QED BY <1>4, <1>5, <2>1 DEF QuietInv, CallocVals, Making
  <1>8. SamplesSpaced'
    BY <1>5 DEF SamplesSpaced
  <1> QED BY <1>1, <1>2, <1>3, <1>4, <1>6, <1>7, <1>8 DEF IInv

LEMMA CreateSharedIInv == ASSUME IInv, CreateShared PROVE IInv'
  <1>1. TypeOK'
    BY Bounds DEF IInv, TypeOK, CreateShared, config, record, Objects
  <1>2. i = 0 /\ i' = 0 /\ shared /\ shared' /\ ret # "ok" /\ last = NULL
    BY DEF IInv, ObjInv, MakingInv, OverInv, Making, CreateShared, config
  <1>3. \A o \in Objects : obj'[o] = IF o # 1 THEN "none" ELSE "live"
    BY <1>2 DEF IInv, TypeOK, ObjInv, MakingInv, Making, Objects, CreateShared
  <1>4. ObjInv'
    BY <1>2, <1>3 DEF ObjInv, MakingInv, MadeInv, CleanupInv, OverInv, Making, Made, Held,
                      ObjectOf, Spare, CreateShared
  <1>5. ValsInv'
    BY DEF IInv, ValsInv, CreateShared, config
  <1>6. RecordOK'
    BY RecordKept DEF IInv, RecordOK, CreateShared, config, record, Making
  <1> QED BY <1>1, <1>4, <1>5, <1>6 DEF IInv, RecordOK

LEMMA CreateOneIInv == ASSUME IInv, CreateOne PROVE IInv'
  <1>1. i \in Nat /\ i < N /\ i \in Tids /\ i + 1 \in Objects /\ last = NULL /\ ret # "ok"
    BY Bounds DEF IInv, TypeOK, ObjInv, MakingInv, OverInv, Making, CreateOne, Tids, Objects
  <1>2. i' = IF i + 1 = N THEN 0 ELSE i + 1
    BY <1>1, Bounds DEF CreateOne
  <1>3. TypeOK'
    BY <1>1, <1>2, Bounds DEF IInv, TypeOK, CreateOne, config, record
  <1>4. \A t \in Tids : memobj'[t] = IF t <= i THEN t + 1 ELSE NULL
    BY <1>1 DEF IInv, TypeOK, ObjInv, MakingInv, Making, Tids, CreateOne
  <1>5. \A o \in Objects : obj'[o] = IF o <= i + 1 THEN "live" ELSE "none"
    BY <1>1 DEF IInv, TypeOK, ObjInv, MakingInv, Making, Objects, CreateOne
  <1>6. MakingInv'
    BY <1>1, <1>2, <1>4, <1>5, Bounds DEF MakingInv, CreateOne, Making, Tids, Objects, config
  <1>7. MadeInv'
    BY <1>1, <1>2, <1>4, <1>5, Bounds DEF MadeInv, CreateOne, Made, Tids, Objects, Held, ObjectOf,
                                          Spare, config
  <1>8. CleanupInv' /\ OverInv'
    BY <1>1, <1>5 DEF CleanupInv, OverInv, CreateOne
  <1>9. ValsInv'
    BY DEF IInv, ValsInv, CreateOne, config
  <1>10. RecordOK'
    BY RecordKept DEF IInv, RecordOK, CreateOne, config, record, Making
  <1> QED BY <1>3, <1>6, <1>7, <1>8, <1>9, <1>10 DEF IInv, ObjInv, RecordOK

LEMMA CreateFailsIInv == ASSUME IInv, CreateFails PROVE IInv'
  <1>1. TypeOK'
    BY DEF IInv, TypeOK, CreateFails, config, memory, record
  <1>2. ObjInv'
    BY DEF IInv, ObjInv, MakingInv, MadeInv, CleanupInv, OverInv, Making, Made, CreateFails,
           config, memory
  <1>3. ValsInv'
    BY DEF CreateFails, ValsInv
  <1>4. RecordOK'
    BY RecordKept DEF IInv, RecordOK, CreateFails, config, record, Making
  <1> QED BY <1>1, <1>2, <1>3, <1>4 DEF IInv, RecordOK

(* With j < i the object of worker i was not made: the loop never gets to     *)
(* destroy anything.                                                          *)
LEMMA UndoOneIInv == ASSUME IInv, UndoOne PROVE IInv'
  <1>1. i \in Tids /\ memobj[i] = NULL
    BY Bounds DEF IInv, TypeOK, ObjInv, MakingInv, Making, UndoOne, Tids
  <1>2. mpc = "undo" /\ mpc' = "crashed" /\ j' = j + 1 /\ j < i
        /\ UNCHANGED <<i, ret, config, memory, record>>
    BY <1>1 DEF UndoOne, config, memory, record
  <1>3. TypeOK'
    BY <1>2, Bounds DEF IInv, TypeOK, config, memory, record
  <1>4. ObjInv'
    BY <1>2 DEF IInv, ObjInv, MakingInv, MadeInv, CleanupInv, OverInv, Making, Made, memory
  <1>5. ValsInv'
    BY <1>2 DEF ValsInv
  <1>6. RecordOK'
    BY <1>2, RecordKept DEF IInv, RecordOK, config, record, Making
  <1> QED BY <1>3, <1>4, <1>5, <1>6 DEF IInv, RecordOK

LEMMA UndoDoneIInv == ASSUME IInv, UndoDone PROVE IInv'
  <1>1. TypeOK'
    BY DEF IInv, TypeOK, UndoDone, ErrOut, config, record
  <1>2. ObjInv'
    BY DEF IInv, ObjInv, MakingInv, MadeInv, CleanupInv, OverInv, Making, Made, UndoDone, ErrOut
  <1>3. ValsInv'
    BY DEF UndoDone, ErrOut, ValsInv
  <1>4. RecordOK'
    BY RecordKept DEF IInv, RecordOK, UndoDone, ErrOut, config, record, Making
  <1> QED BY <1>1, <1>2, <1>3, <1>4 DEF IInv, RecordOK

LEMMA PrepopulateIInv ==
  ASSUME IInv, PrepopulateOne \/ PrepopulateFails \/ PrepopulateDone PROVE IInv'
  <1>1. TypeOK'
    BY Bounds DEF IInv, TypeOK, PrepopulateOne, PrepopulateFails, PrepopulateDone, ErrOut, main,
                  config, memory, record
  <1>2. ObjInv'
    BY DEF IInv, ObjInv, MakingInv, MadeInv, CleanupInv, OverInv, Making, Made, Held, ObjectOf,
           Spare, PrepopulateOne, PrepopulateFails, PrepopulateDone, ErrOut, main, config, memory
  <1>3. ValsInv'
    BY DEF IInv, ValsInv, PrepopulateOne, PrepopulateFails, PrepopulateDone, ErrOut, main, config,
           memory
  <1>4. RecordOK'
    BY RecordKept DEF IInv, RecordOK, PrepopulateOne, PrepopulateFails, PrepopulateDone, ErrOut,
                      main, config, record, Making
  <1> QED BY <1>1, <1>2, <1>3, <1>4 DEF IInv, RecordOK

LEMMA FillArgsIInv == ASSUME IInv, FillArgs PROVE IInv'
  <1>1. TypeOK'
    BY Bounds DEF IInv, TypeOK, FillArgs, config, memory
  <1>2. ObjInv'
    BY DEF IInv, ObjInv, MakingInv, MadeInv, CleanupInv, OverInv, Making, Made, Held, ObjectOf,
           Spare, FillArgs, config, memory
  <1>3. ValsInv'
    BY DEF IInv, ValsInv, FillArgs, config, memory
  <1>4. QuietInv'
    BY DEF FillArgs, QuietInv, Making
  <1>5. \A t \in Tids : calls'[t] + dryrun'[t] >= Dryrun
    BY <1>1, Bounds DEF TypeOK, FillArgs
  <1>6. RecordInv'
    BY <1>5 DEF IInv, RecordInv, FillArgs, Segment, config
  <1>7. SamplesInPart' /\ SamplesSpaced'
    BY DEF IInv, SamplesInPart, SamplesSpaced, FillArgs, Segment, config
  <1> QED BY <1>1, <1>2, <1>3, <1>4, <1>6, <1>7 DEF IInv

LEMMA RunEndIInv == ASSUME IInv, RunFails \/ RunDone PROVE IInv'
  <1>1. TypeOK'
    BY DEF IInv, TypeOK, RunFails, RunDone, config, memory, record
  <1>2. ObjInv'
    BY Bounds DEF IInv, ObjInv, MakingInv, MadeInv, CleanupInv, OverInv, Making, Made, Held,
                  ObjectOf, Spare, RunFails, RunDone, config, memory
  <1>3. ValsInv'
    BY DEF RunFails, RunDone, ValsInv
  <1>4. RecordOK'
    BY RecordKept DEF IInv, RecordOK, RunFails, RunDone, config, record, Making
  <1> QED BY <1>1, <1>2, <1>3, <1>4 DEF IInv, RecordOK

------------------------------------------------------------------------------
(* A worker's operation. *)

(* The sample is the next in the worker's own part, and nothing else changes. *)
LEMMA RecordStep ==
  ASSUME IInv, NEW t \in Tids, NEW e \in Elapsed, mpc = "run", mpc' = "run", stats' = stats,
         calls[t] < MaxCalls, calls' = [calls EXCEPT ![t] = @ + 1],
         UNCHANGED dryrun, dryrun[t] = 0, next[t] <= e, idx[t] # stats,
         values' = [values EXCEPT ![Segment(t) + idx[t]] =
                      [tid |-> t, elapsed |-> e, ops |-> calls[t]]],
         idx' = [idx EXCEPT ![t] = @ + 1],
         next' = [next EXCEPT ![t] = e + Delta]
  PROVE  RecordOK' /\ idx' \in [Tids -> 0..MaxStats] /\ next' \in [Tids -> 0..(MaxTime + Delta)]
         /\ values' \in [0..(N * MaxStats - 1) ->
              [tid : Tids \union {-1}, elapsed : 0..MaxTime, ops : 0..MaxCalls]]
  <1> DEFINE sample == [tid |-> t, elapsed |-> e, ops |-> calls[t]]
  <1>1. TypeOK /\ stats \in Nat /\ stats <= MaxStats /\ e \in Nat /\ e <= MaxTime
        /\ calls[t] \in 0..MaxCalls
    <2>1. TypeOK /\ calls[t] \in 0..MaxCalls
      BY DEF IInv, TypeOK
    <2>2. stats \in Nat /\ stats <= MaxStats
      BY Bounds DEF IInv, TypeOK
    <2>3. e \in Nat /\ e <= MaxTime
      BY Bounds DEF Elapsed
    <2> QED BY <2>1, <2>2, <2>3
  <1>2. idx \in [Tids -> 0..MaxStats] /\ \A u \in Tids : idx[u] \in Nat /\ idx[u] <= stats
    BY <1>1, Bounds DEF TypeOK, IInv, RecordInv
  <1>3. idx[t] \in 0..(stats - 1)
    BY <1>1, <1>2
  <1>4. \A u \in Tids : idx'[u] = IF u = t THEN idx[t] + 1 ELSE idx[u]
    BY <1>2
  <1>5. calls[t] >= Dryrun
    BY <1>1, Bounds DEF IInv, RecordInv
  <1>6. sample \in [tid : Tids \union {-1}, elapsed : 0..MaxTime, ops : 0..MaxCalls]
    BY <1>1, Bounds
  <1>7. values'[stats * t + idx[t]] = sample
    <2>1. stats * t + idx[t] \in 0..(N * MaxStats - 1)
      BY <1>1, <1>3, SegmentInArray
    <2> QED BY <1>1, <2>1 DEF TypeOK, Segment
  <1>8. ASSUME NEW u \in Tids, NEW n \in 0..(stats - 1), u # t \/ n # idx[t]
        PROVE  values'[stats * u + n] = values[stats * u + n]
    <2>1. stats * u + n # stats * t + idx[t]
      BY <1>1, <1>3, <1>8, SegmentsDisjoint
    <2>2. stats * u + n \in 0..(N * MaxStats - 1)
      BY <1>1, SegmentInArray
    <2> QED BY <1>1, <2>1, <2>2 DEF TypeOK, Segment
  <1>9. values' \in [0..(N * MaxStats - 1) ->
              [tid : Tids \union {-1}, elapsed : 0..MaxTime, ops : 0..MaxCalls]]
    BY <1>1, <1>6 DEF TypeOK
  <1>10. idx' \in [Tids -> 0..MaxStats] /\ next' \in [Tids -> 0..(MaxTime + Delta)]
    BY <1>1, <1>3, Bounds DEF TypeOK
  <1>11. QuietInv'
    BY DEF QuietInv, Making
  <1>12. RecordInv'
    <2> SUFFICES ASSUME NEW u \in Tids
                 PROVE  /\ idx'[u] <= stats
                        /\ calls'[u] + dryrun[u] >= Dryrun
                        /\ idx'[u] > 0 =>
                             next'[u] = values'[stats * u + (idx'[u] - 1)].elapsed + Delta
      BY DEF RecordInv, Segment
    <2>1. idx'[u] <= stats
      BY <1>1, <1>2, <1>3, <1>4
    <2>2. calls'[u] + dryrun[u] >= Dryrun
      BY <1>1, Bounds DEF IInv, RecordInv, TypeOK
    <2>3. CASE u = t
      <3>1. idx'[u] - 1 = idx[t]
        BY <1>3, <1>4, <2>3
      <3>2. next'[u] = e + Delta
        BY <1>1, <2>3 DEF TypeOK
      <3> QED BY <1>7, <2>1, <2>2, <2>3, <3>1, <3>2
    <2>4. CASE u # t /\ idx[u] > 0
      <3>1. idx'[u] = idx[u] /\ idx[u] - 1 \in 0..(stats - 1)
        BY <1>1, <1>2, <1>4, <2>4
      <3>2. values'[stats * u + (idx[u] - 1)] = values[stats * u + (idx[u] - 1)]
        BY <1>8, <2>4, <3>1
      <3>3. next'[u] = next[u]
        BY <1>1, <2>4 DEF TypeOK
      <3>4. next[u] = values[stats * u + (idx[u] - 1)].elapsed + Delta
        BY <2>4 DEF IInv, RecordInv, Segment
      <3> QED BY <2>1, <2>2, <3>1, <3>2, <3>3, <3>4
    <2>5. CASE u # t /\ ~(idx[u] > 0)
      BY <1>4, <2>1, <2>2, <2>5
    <2> QED BY <2>3, <2>4, <2>5
  <1>13. SamplesInPart'
    <2> SUFFICES ASSUME NEW u \in Tids, NEW n \in 0..(stats - 1)
                 PROVE  IF n < idx'[u]
                        THEN values'[stats * u + n].tid = u /\ values'[stats * u + n].ops >= Dryrun
                        ELSE values'[stats * u + n] = NoSample
      BY DEF SamplesInPart, Segment
    <2>1. CASE u = t /\ n = idx[t]
      <3>1. n < idx'[u]
        BY <1>3, <1>4, <2>1
      <3> QED BY <1>5, <1>7, <2>1, <3>1
    <2>2. CASE u # t \/ n # idx[t]
      <3>1. n < idx'[u] <=> n < idx[u]
        BY <1>2, <1>3, <1>4, <2>2
      <3>2. values'[stats * u + n] = values[stats * u + n]
        BY <1>8, <2>2
      <3>3. IF n < idx[u]
            THEN values[stats * u + n].tid = u /\ values[stats * u + n].ops >= Dryrun
            ELSE values[stats * u + n] = NoSample
        BY DEF IInv, SamplesInPart, Segment
      <3> QED BY <3>1, <3>2, <3>3
    <2> QED BY <2>1, <2>2
  <1>14. SamplesSpaced'
    <2> SUFFICES ASSUME NEW u \in Tids, NEW n \in 0..(idx'[u] - 2)
                 PROVE  values'[stats * u + n].elapsed + Delta
                          <= values'[stats * u + n + 1].elapsed
      BY DEF SamplesSpaced, Segment
    <2>1. n \in Nat /\ n + 1 \in 0..(stats - 1) /\ n \in 0..(stats - 1)
      BY <1>1, <1>2, <1>3, <1>4
    <2>2. stats * u + n + 1 = stats * u + (n + 1)
      <3>1. stats * u \in Nat
        BY <1>1, Bounds DEF Tids
      <3> QED BY <2>1, <3>1
    <2>3. CASE u = t /\ n + 1 = idx[t]
      <3>1. n # idx[t] /\ n = idx[t] - 1
        BY <1>3, <2>1, <2>3
      <3>2. values'[stats * u + n] = values[stats * u + n]
        BY <1>8, <2>1, <3>1
      <3>3. next[t] = values[stats * u + n].elapsed + Delta
        BY <1>3, <2>3, <3>1, <2>1 DEF IInv, RecordInv, Segment
      <3>4. values'[stats * u + n + 1].elapsed = e
        BY <1>7, <2>2, <2>3
      <3> QED BY <3>2, <3>3, <3>4
    <2>4. CASE u # t \/ n + 1 # idx[t]
      <3>1. n \in 0..(idx[u] - 2) /\ (u # t \/ n # idx[t])
        BY <1>2, <1>3, <1>4, <2>1, <2>4
      <3>2. values'[stats * u + n] = values[stats * u + n]
        BY <1>8, <2>1, <3>1
      <3>3. values'[stats * u + (n + 1)] = values[stats * u + (n + 1)]
        BY <1>8, <2>1, <2>4
      <3>4. values[stats * u + n].elapsed + Delta <= values[stats * u + n + 1].elapsed
        BY <3>1 DEF IInv, SamplesSpaced, Segment
      <3> QED BY <2>2, <3>2, <3>3, <3>4
    <2> QED BY <2>3, <2>4
  <1> QED BY <1>9, <1>10, <1>11, <1>12, <1>13, <1>14 DEF RecordOK

(* A call that takes no sample. *)
LEMMA SkipStep ==
  ASSUME IInv, NEW t \in Tids, mpc = "run", mpc' = "run", stats' = stats,
         calls[t] < MaxCalls, calls' = [calls EXCEPT ![t] = @ + 1],
         UNCHANGED <<idx, next, values>>,
         \/ UNCHANGED dryrun
         \/ dryrun[t] > 0 /\ dryrun' = [dryrun EXCEPT ![t] = @ - 1]
  PROVE  RecordOK' /\ dryrun' \in [Tids -> 0..Dryrun]
  <1>1. dryrun' \in [Tids -> 0..Dryrun]
    <2>1. dryrun[t] \in 0..Dryrun /\ dryrun \in [Tids -> 0..Dryrun]
      BY DEF IInv, TypeOK
    <2>2. dryrun[t] > 0 => dryrun[t] - 1 \in 0..Dryrun
      BY <2>1, Bounds
    <2> QED BY <2>1, <2>2
  <1>2. ASSUME NEW u \in Tids PROVE calls'[u] + dryrun'[u] >= Dryrun
    <2>1. calls[u] + dryrun[u] >= Dryrun /\ calls[u] \in Nat /\ dryrun[u] \in Nat
      BY Bounds DEF IInv, RecordInv, TypeOK
    <2>2. calls'[u] = (IF u = t THEN calls[u] + 1 ELSE calls[u])
      BY DEF IInv, TypeOK
    <2>3. dryrun'[u] = dryrun[u] \/ (u = t /\ dryrun'[u] = dryrun[u] - 1)
      BY DEF IInv, TypeOK
    <2> QED BY <2>1, <2>2, <2>3, Bounds
  <1>3. RecordInv'
    BY <1>2 DEF IInv, RecordInv, Segment
  <1>4. QuietInv'
    BY DEF QuietInv, Making
  <1>5. SamplesInPart' /\ SamplesSpaced'
    BY DEF IInv, SamplesInPart, SamplesSpaced, Segment
  <1> QED BY <1>1, <1>3, <1>4, <1>5 DEF RecordOK

LEMMA OperationIInv == ASSUME IInv, NEW t \in Tids, Operation(t) PROVE IInv'
  <1>1. mpc = "run" /\ mpc' = "run" /\ calls[t] < MaxCalls
        /\ calls' = [calls EXCEPT ![t] = @ + 1] /\ UNCHANGED <<main, config, memory>>
        /\ UNCHANGED stats
    BY DEF Operation, main, config
  <1>2. PICK e \in Elapsed : AddStats(t, e)
    BY DEF Operation
  <1>3. calls' \in [Tids -> 0..MaxCalls]
    BY <1>1, Bounds DEF IInv, TypeOK
  <1>4. dryrun[t] \in Nat /\ next[t] \in Nat /\ e \in Nat
    BY Bounds DEF IInv, TypeOK, Elapsed
  <1>5. /\ RecordOK'
        /\ dryrun' \in [Tids -> 0..Dryrun]
        /\ idx' \in [Tids -> 0..MaxStats] /\ next' \in [Tids -> 0..(MaxTime + Delta)]
        /\ values' \in [0..(N * MaxStats - 1) ->
              [tid : Tids \union {-1}, elapsed : 0..MaxTime, ops : 0..MaxCalls]]
    <2>1. CASE dryrun[t] > 0
      <3>1. dryrun' = [dryrun EXCEPT ![t] = @ - 1] /\ UNCHANGED <<idx, next, values>>
        BY <1>2, <2>1 DEF AddStats
      <3>2. RecordOK' /\ dryrun' \in [Tids -> 0..Dryrun]
        BY <1>1, <2>1, <3>1, SkipStep
      <3> QED BY <3>1, <3>2 DEF IInv, TypeOK
    <2>2. CASE ~(dryrun[t] > 0) /\ (next[t] > e \/ idx[t] = stats)
      <3>1. UNCHANGED <<dryrun, idx, next, values>>
        BY <1>2, <2>2 DEF AddStats
      <3>2. RecordOK' /\ dryrun' \in [Tids -> 0..Dryrun]
        BY <1>1, <2>2, <3>1, SkipStep
      <3> QED BY <3>1, <3>2 DEF IInv, TypeOK
    <2>3. CASE ~(dryrun[t] > 0) /\ ~(next[t] > e \/ idx[t] = stats)
      <3>1. /\ UNCHANGED dryrun
            /\ values' = [values EXCEPT ![Segment(t) + idx[t]] =
                            [tid |-> t, elapsed |-> e, ops |-> calls[t]]]
            /\ idx' = [idx EXCEPT ![t] = @ + 1]
            /\ next' = [next EXCEPT ![t] = e + Delta]
        BY <1>2, <2>3 DEF AddStats
      <3>2. dryrun[t] = 0 /\ next[t] <= e /\ idx[t] # stats
        BY <1>4, <2>3
      <3>3. /\ RecordOK'
            /\ idx' \in [Tids -> 0..MaxStats] /\ next' \in [Tids -> 0..(MaxTime + Delta)]
            /\ values' \in [0..(N * MaxStats - 1) ->
                  [tid : Tids \union {-1}, elapsed : 0..MaxTime, ops : 0..MaxCalls]]
        BY <1>1, <3>1, <3>2, RecordStep
      <3> QED BY <3>1, <3>3 DEF IInv, TypeOK
    <2> QED BY <2>1, <2>2, <2>3
  <1>6. TypeOK'
    BY <1>1, <1>3, <1>5 DEF IInv, TypeOK, main, config, memory
  <1>7. ObjInv'
    BY <1>1 DEF IInv, ObjInv, MakingInv, MadeInv, CleanupInv, OverInv, Making, Made, Held,
                ObjectOf, Spare, main, config, memory
  <1>8. ValsInv'
    BY <1>1 DEF IInv, ValsInv, memory
  <1> QED BY <1>5, <1>6, <1>7, <1>8 DEF IInv, RecordOK

------------------------------------------------------------------------------
(* cleanup_args *)

LEMMA CleanupOneIInv == ASSUME IInv, CleanupOne PROVE IInv'
  <1>1. mpc = "cleanup" /\ mpc' = "cleanup" /\ i \in Nat /\ i < N /\ i \in Tids /\ i' = i + 1
        /\ UNCHANGED <<ret, shared, memobj>> /\ ret # "ok" /\ shared \in BOOLEAN
    BY Bounds DEF IInv, TypeOK, ObjInv, OverInv, CleanupOne, Tids, config
  <1>2. Held /\ last = (IF i = 0 THEN NULL ELSE ObjectOf(i - 1)) /\ memobj[i] = ObjectOf(i)
    BY <1>1 DEF IInv, ObjInv, CleanupInv, Held
  <1>3. memobj[i] \in Objects
    BY <1>1, <1>2, Bounds DEF ObjectOf, Objects
  <1>4. (memobj[i] # last) <=> (~shared \/ i = 0)
    BY <1>1, <1>2 DEF ObjectOf, NULL
  <1>5. \A o \in Objects :
          obj[o] = IF Spare(o) THEN "none"
                   ELSE IF i > 0 /\ (shared \/ o <= i) THEN "destroyed" ELSE "live"
    BY <1>1 DEF IInv, ObjInv, CleanupInv
  <1>6. TypeOK' /\ last' = memobj[i]
    <2>1. CASE memobj[i] # last
      <3>1. last' = memobj[i] /\ obj' \in [Objects -> {"none", "live", "destroyed", "twice"}]
        BY <2>1 DEF CleanupOne, Destroy, IInv, TypeOK
      <3>2. i' \in 0..N
        BY <1>1, Bounds
      <3> QED BY <1>1, <1>3, <3>1, <3>2 DEF CleanupOne, IInv, TypeOK, config, record
    <2>2. CASE memobj[i] = last
      BY <1>1, <2>2, Bounds DEF CleanupOne, IInv, TypeOK, config, record
    <2> QED BY <2>1, <2>2
  <1>7. \A o \in Objects :
          obj'[o] = IF Spare(o) THEN "none"
                    ELSE IF shared \/ o <= i + 1 THEN "destroyed" ELSE "live"
    <2> TAKE o \in Objects
    <2>1. CASE shared /\ i > 0
      BY <1>1, <1>4, <1>5, <2>1 DEF CleanupOne, Spare
    <2>2. CASE shared /\ i = 0
      <3>1. obj' = [obj EXCEPT ![1] = IF obj[1] = "destroyed" THEN "twice" ELSE "destroyed"]
        BY <1>2, <1>4, <2>2 DEF CleanupOne, Destroy, ObjectOf
      <3>2. 1 \in Objects /\ obj[1] = "live"
        BY <1>5, <2>2, Bounds DEF Objects, Spare
      <3> QED BY <1>5, <2>2, <3>1, <3>2 DEF Spare, IInv, TypeOK
    <2>3. CASE ~shared
      <3>1. obj' = [obj EXCEPT ![i + 1] = IF obj[i + 1] = "destroyed" THEN "twice" ELSE "destroyed"]
        BY <1>2, <1>4, <2>3 DEF CleanupOne, Destroy, ObjectOf
      <3>2. i + 1 \in Objects /\ obj[i + 1] = "live"
        BY <1>1, <1>5, <2>3, Bounds DEF Objects, Spare
      <3>3. obj'[o] = IF o = i + 1 THEN "destroyed" ELSE obj[o]
        BY <3>1, <3>2 DEF IInv, TypeOK
      <3>4. obj[o] = IF i > 0 /\ o <= i THEN "destroyed" ELSE "live"
        BY <1>5, <2>3 DEF Spare
      <3> QED BY <1>1, <2>3, <3>3, <3>4 DEF Objects, Spare
    <2> QED BY <1>1, <2>1, <2>2, <2>3
  <1>8. CleanupInv'
    <2>1. i' > 0 /\ i' - 1 = i
      BY <1>1
    <2> QED BY <1>1, <1>2, <1>6, <1>7, <2>1 DEF CleanupInv, Held, ObjectOf, Spare
  <1>9. ObjInv'
    BY <1>1, <1>7, <1>8 DEF ObjInv, MakingInv, MadeInv, OverInv, Making, Made
  <1>10. ValsInv'
    BY <1>1 DEF ValsInv
  <1>11. RecordOK'
    BY <1>1, RecordKept DEF IInv, RecordOK, CleanupOne, config, record, Making
  <1> QED BY <1>6, <1>9, <1>10, <1>11 DEF IInv, RecordOK

LEMMA CleanupDoneIInv == ASSUME IInv, CleanupDone PROVE IInv'
  <1>1. TypeOK'
    BY DEF IInv, TypeOK, CleanupDone, config, record
  <1>2. \A o \in Objects : obj[o] # "live" /\ obj[o] # "twice"
    <2>1. N > 0 /\ \A o \in Objects : o <= N
      BY Bounds DEF Objects
    <2> QED BY <2>1 DEF IInv, ObjInv, CleanupInv, CleanupDone
  <1>3. ObjInv'
    BY <1>2 DEF ObjInv, MakingInv, MadeInv, CleanupInv, OverInv, Making, Made, CleanupDone
  <1>4. ValsInv'
    BY DEF CleanupDone, ValsInv
  <1>5. RecordOK'
    BY RecordKept DEF IInv, RecordOK, CleanupDone, config, record, Making
  <1> QED BY <1>1, <1>3, <1>4, <1>5 DEF IInv, RecordOK

LEMMA NextIInv == IInv /\ [Next]_vars => IInv'
  <1> SUFFICES ASSUME IInv, [Next]_vars PROVE IInv'
    OBVIOUS
  <1>1. CASE UNCHANGED vars
    <2>1. UNCHANGED <<mpc, i, j, ret, shared, stats, args, vals, obj, memobj, maps, last, calls,
                      dryrun, idx, next, values>>
      BY <1>1 DEF vars, main, config, memory, record
    <2>2. TypeOK' /\ ValsInv'
      BY <2>1 DEF IInv, TypeOK, ValsInv
    <2>3. ObjInv'
      BY <2>1 DEF IInv, ObjInv, MakingInv, MadeInv, CleanupInv, OverInv, Making, Made, Held,
                  ObjectOf, Spare
    <2>4. RecordOK'
      BY <2>1, RecordKept DEF IInv, RecordOK
    <2> QED BY <2>2, <2>3, <2>4 DEF IInv, RecordOK
  <1>2. CASE \E t \in Tids : Operation(t)
    BY <1>2, OperationIInv
  <1>3. CASE Next /\ ~\E t \in Tids : Operation(t)
    BY <1>3, CallocIInv, CallocValsIInv, CreateSharedIInv, CreateOneIInv, CreateFailsIInv,
       UndoOneIInv, UndoDoneIInv, PrepopulateIInv, FillArgsIInv, RunEndIInv, CleanupOneIInv,
       CleanupDoneIInv DEF Next
  <1> QED BY <1>1, <1>2, <1>3

LEMMA SpecIInv == Spec => []IInv
  BY InitIInv, NextIInv, PTL DEF Spec

------------------------------------------------------------------------------
(* The variables of utils.c's functions stay within their types: no sample    *)
(* is written outside the array, whatever cfg->stats is (utils.h:130).        *)
THEOREM ArgsTypeOK == Spec => []TypeOK
  BY SpecIInv, PTL DEF IInv

(* Every worker starts with a live memory object, its own when they are to be *)
(* independent, and with an array if it is to record (utils.c:184).           *)
THEOREM ArgsReadyToRun == Spec => []ReadyToRun
  <1>1. IInv => ReadyToRun
    <2> SUFFICES ASSUME IInv, mpc = "run" PROVE ReadyToRun
      BY DEF ReadyToRun
    <2>1. \A t \in Tids : memobj[t] = ObjectOf(t) /\ ObjectOf(t) \in Objects /\ ~Spare(ObjectOf(t))
                          /\ ObjectOf(t) # NULL
      BY Bounds DEF IInv, ObjInv, MadeInv, Made, Held, ObjectOf, Tids, Objects, Spare, NULL
    <2>2. \A o \in Objects : ~Spare(o) => obj[o] = "live"
      BY DEF IInv, ObjInv, MadeInv, Made
    <2>3. shared \/ \A t, u \in Tids : memobj[t] = memobj[u] => t = u
      BY <2>1, Bounds DEF ObjectOf, Tids
    <2>4. stats > 0 => vals
      BY DEF IInv, ValsInv
    <2> QED BY <2>1, <2>2, <2>3, <2>4 DEF ReadyToRun
  <1> QED BY <1>1, SpecIInv, PTL

(* No memory object is destroyed twice or under a worker, and none survives a *)
(* completed benchmark, for any number of workers (utils.c:290).              *)
THEOREM ArgsObjectsReleased == Spec => []ObjectsReleased
  <1>1. IInv => ObjectsReleased
    BY DEF IInv, ObjInv, MadeInv, OverInv, Made, ObjectsReleased
  <1> QED BY <1>1, SpecIInv, PTL

(* Each sample is in the part of the worker that took it, the parts are       *)
(* filled from the front, and no first operation is in them (utils.h:130).    *)
THEOREM ArgsSamplesInPart == Spec => []SamplesInPart
  BY SpecIInv, PTL DEF IInv

(* A worker's samples are at least the sampling interval apart, whatever the  *)
(* clock says (utils.h:142).                                                  *)
THEOREM ArgsSamplesSpaced == Spec => []SamplesSpaced
  BY SpecIInv, PTL DEF IInv
==============================================================================
