--------------------------- MODULE StorageProofs ---------------------------
(* What the storage providers keep, for any files, any number of calls and *)
(* any failures, and that they are the store the service takes them for.   *)
EXTENDS Storage, TLAPS

(* A file as it was before is whole; of another, the call that emptied it  *)
(* last has written every chunk it has passed.                             *)
Untouched == \A n \in Node : owner[n] \in Keys => fill[n] = Chunks
Owned ==
  \A n \in Node : owner[n] \in Calls =>
    LET c == owner[n]
    IN /\ handle[c] = n /\ job[c].op = "put" /\ stage[c] \in {"writing", "ok", "failed"}
       /\ stage[c] # "failed" => \A m \in Chunks : m < pos[c] => m \in fill[n]
       /\ stage[c] = "ok" => pos[c] > Size

(* Objects are whole                                                       *)
Objects == provider = "s3" =>
             /\ \A n \in Node : owner[n] # None => fill[n] = Chunks
             /\ \A c \in Calls : stage[c] # "prepared"
Present == \A k \in Keys : file[k] # None => owner[file[k]] # None

(* Reads begin at the beginning, on a file somebody has made, and have got *)
(* all they have passed                                                    *)
Early == \A c \in Calls :
           stage[c] \in {"idle", "asked", "prepared", "found"} => pos[c] = 1
Reads ==
  \A c \in Calls : stage[c] = "reading" =>
    /\ owner[handle[c]] # None
    /\ c \notin disturbed => /\ Settled(handle[c])
                             /\ \A m \in Chunks : m < pos[c] => m \in got[c]
Finds ==
  \A c \in Calls \ disturbed : stage[c] = "found" =>
    provider = "s3" \/ file[job[c].key] # None

Kept == /\ TypeOK /\ Untouched /\ Owned /\ Objects /\ Present
        /\ Early /\ Reads /\ Finds /\ ReadsWhole

-----------------------------------------------------------------------------
LEMMA Constants ==
  /\ Size \in Nat \ {0} /\ MaxFaults \in Nat /\ Calls \cap Keys = {}
  /\ None \notin Calls /\ None \notin Keys
  /\ \A j \in Jobs : j.op \in {"put", "get", "delete"}
  BY StorageAssumption DEF Job

LEMMA SettledIsWhole ==
  ASSUME Kept, NEW n \in Node, owner[n] # None, Settled(n)
  PROVE  fill[n] = Chunks
  <1> USE DEF Kept
  <1>1. CASE provider = "s3"
    BY <1>1 DEF Objects
  <1>2. CASE owner[n] \in Keys
    BY <1>2 DEF Untouched
  <1>3. CASE owner[n] \in Calls /\ stage[owner[n]] = "ok"
    <2>1. \A m \in Chunks : m \in fill[n]
      BY <1>3, Constants DEF Owned, Chunks, TypeOK
    <2>2. fill[n] \subseteq Chunks
      BY DEF TypeOK
    <2> QED BY <2>1, <2>2
  <1> QED BY <1>1, <1>2, <1>3 DEF Settled

LEMMA InitKept == Init => Kept
  <1> SUFFICES ASSUME Init PROVE Kept
    OBVIOUS
  <1> USE Constants
  <1>1. TypeOK
    BY StorageAssumption DEF Init, TypeOK, Node, Chunks, Under, Ended
  <1>2. Untouched /\ Owned /\ Objects /\ Present
    BY DEF Init, Untouched, Owned, Objects, Present, Node
  <1>3. Early /\ Reads /\ Finds /\ ReadsWhole
    BY DEF Init, Early, Reads, Finds, ReadsWhole
  <1> QED BY <1>1, <1>2, <1>3 DEF Kept

-----------------------------------------------------------------------------
(* A call that moves without touching a file                               *)
Quiet(c) ==
  \/ stage'[c] = stage[c]
  \/ stage[c] \in Under /\ stage'[c] = "failed"
  \/ stage[c] \in {"idle", "asked"} /\ stage'[c] \in {"asked", "missing"}
  \/ stage[c] = "asked" /\ stage'[c] = "prepared" /\ provider = "local"
  \/ stage[c] = "asked" /\ stage'[c] = "found"
     /\ (provider = "s3" \/ file[job[c].key] # None)
  \/ stage[c] = "writing" /\ stage'[c] = "ok" /\ pos[c] > Size
  \/ stage[c] = "deleted" /\ stage'[c] = "ok" /\ job[c].op = "delete"
  \/ stage[c] = "found" /\ stage'[c] = "broken" /\ file[job[c].key] = None
  \/ stage[c] = "reading" /\ stage'[c] = "ok" /\ \A n \in fill[handle[c]] : n < pos[c]

LEMMA QuietPreserves ==
  ASSUME Kept, TypeOK', UNCHANGED <<provider, files, access, disturbed>>,
         \A c \in Calls : Quiet(c) /\ (job'[c] = job[c] \/ stage[c] = "idle")
  PROVE  Kept'
  <1> USE Constants DEF Kept
  <1>1. /\ provider' = provider /\ file' = file /\ fill' = fill /\ owner' = owner
        /\ handle' = handle /\ pos' = pos /\ got' = got /\ disturbed' = disturbed
    BY DEF files, access
  <1>2. \A n \in Node : Settled(n) => Settled(n)'
    BY <1>1 DEF Settled, Quiet, Under
  <1>3. Untouched' /\ Present'
    BY <1>1 DEF Untouched, Present
  <1>4. Owned'
    BY <1>1 DEF Owned, Quiet, Under
  <1>5. Objects'
    BY <1>1 DEF Objects, Quiet, Under
  <1>6. Early'
    BY <1>1 DEF Early, Quiet, Under
  <1>7. Reads'
    BY <1>1, <1>2 DEF Reads, Quiet, Under, TypeOK
  <1>8. Finds'
    BY <1>1 DEF Finds, Quiet, Under, TypeOK
  <1>9. ReadsWhole'
    <2> SUFFICES ASSUME NEW c \in Calls, c \notin disturbed, stage'[c] # "idle",
                        job'[c].op = "get"
                 PROVE  /\ stage'[c] = "ok" => got[c] = Chunks
                        /\ stage'[c] = "broken" => provider = "s3"
      BY <1>1 DEF ReadsWhole
    <2>1. CASE stage[c] = "reading" /\ stage'[c] = "ok"
      <3>1. job'[c] = job[c] /\ handle[c] \in Node /\ pos[c] \in Int
            /\ owner[handle[c]] # None /\ Settled(handle[c])
        BY <2>1 DEF TypeOK, Reads
      <3>2. fill[handle[c]] = Chunks
        BY <3>1, SettledIsWhole
      <3>3. \A m \in Chunks : m < pos[c]
        BY <2>1, <3>2 DEF Quiet
      <3>4. \A m \in Chunks : m \in got[c]
        BY <2>1, <3>3 DEF Reads
      <3> QED BY <2>1, <3>4 DEF TypeOK
    <2>2. CASE stage'[c] = "broken" /\ stage[c] = "found"
      BY <2>2 DEF Finds, Quiet
    <2>3. CASE stage[c] = "writing" \/ stage[c] = "deleted"
      BY <2>3 DEF Quiet, TypeOK, Under
    <2>4. CASE stage'[c] = stage[c]
      BY <2>4 DEF ReadsWhole
    <2> QED BY <2>1, <2>2, <2>3, <2>4 DEF Quiet, Under
  <1> QED BY <1>3, <1>4, <1>5, <1>6, <1>7, <1>8, <1>9

LEMMA QuietSteps ==
  ASSUME Kept, NEW c \in Calls,
         \/ \E j \in Jobs : Ask(c, j)
         \/ Keyless(c) \/ Prepare(c) \/ EndWrite(c) \/ DeleteMisses(c) \/ EndDelete(c)
         \/ Look(c) \/ StreamBreaks(c) \/ EndRead(c) \/ Breaks(c)
  PROVE  Kept'
  <1> USE Constants DEF Kept
  <1>1. /\ UNCHANGED <<provider, files, access, disturbed>>
        /\ \A d \in Calls \ {c} : stage'[d] = stage[d] /\ job'[d] = job[d]
    BY DEF Ask, Keyless, Prepare, EndWrite, DeleteMisses, EndDelete, Look,
           StreamBreaks, EndRead, Breaks, Moves, TypeOK
  <1>2. TypeOK' /\ Quiet(c) /\ (job'[c] = job[c] \/ stage[c] = "idle")
    <2> USE DEF Moves, Quiet
    <2>1. ASSUME NEW j \in Jobs, Ask(c, j)
          PROVE  TypeOK' /\ Quiet(c) /\ (job'[c] = job[c] \/ stage[c] = "idle")
      BY <2>1 DEF Ask, TypeOK, files, access, Under, Ended
    <2>2. CASE Keyless(c)
      BY <2>2 DEF Keyless, TypeOK, files, access, Under, Ended
    <2>3. CASE Prepare(c)
      BY <2>3 DEF Prepare, Asks, TypeOK, files, access, Under, Ended
    <2>4. CASE EndWrite(c)
      BY <2>4 DEF EndWrite, TypeOK, files, access, Under, Ended
    <2>5. CASE DeleteMisses(c)
      BY <2>5 DEF DeleteMisses, TypeOK, files, access, Under, Ended
    <2>6. CASE EndDelete(c)
      BY <2>6 DEF EndDelete, TypeOK, files, access, Under, Ended
    <2>7. CASE Look(c)
      BY <2>7 DEF Look, Asks, TypeOK, files, access, Under, Ended
    <2>8. CASE StreamBreaks(c)
      BY <2>8 DEF StreamBreaks, TypeOK, files, access, Under, Ended
    <2>9. CASE EndRead(c)
      BY <2>9 DEF EndRead, TypeOK, files, access, Under, Ended
    <2>10. CASE Breaks(c)
      BY <2>10 DEF Breaks, Fault, TypeOK, files, access, Under, Ended
    <2> QED BY <2>1, <2>2, <2>3, <2>4, <2>5, <2>6, <2>7, <2>8, <2>9, <2>10
  <1>3. \A d \in Calls : Quiet(d) /\ (job'[d] = job[d] \/ stage[d] = "idle")
    BY <1>1, <1>2 DEF Quiet
  <1> QED BY <1>1, <1>2, <1>3, QuietPreserves

LEMMA CrashPreserves ==
  ASSUME Kept, Crash
  PROVE  Kept'
  <1> USE Constants DEF Kept
  <1>1. TypeOK' /\ UNCHANGED <<provider, files, access, disturbed>>
    BY DEF Crash, Fault, TypeOK, files, access, Under, Ended
  <1>2. \A d \in Calls : Quiet(d) /\ job'[d] = job[d]
    BY DEF Crash, Quiet, Under
  <1> QED BY <1>1, <1>2, QuietPreserves

-----------------------------------------------------------------------------
LEMMA OpenWritePreserves ==
  ASSUME Kept, NEW c \in Calls, OpenWrite(c)
  PROVE  Kept'
  <1> USE Constants DEF Kept
  <1> DEFINE k == job[c].key
             n == IF file[k] = None THEN c ELSE file[k]
  <1>1. /\ stage[c] = "prepared" /\ stage' = [stage EXCEPT ![c] = "writing"]
        /\ file' = [file EXCEPT ![k] = n]
        /\ fill' = [fill EXCEPT ![n] = {}] /\ owner' = [owner EXCEPT ![n] = c]
        /\ handle' = [handle EXCEPT ![c] = n]
        /\ disturbed' = disturbed \cup
                          {r \in Calls : stage[r] = "reading" /\ handle[r] = n}
        /\ UNCHANGED <<provider, job, pos, got, faults>>
    BY DEF OpenWrite, Moves
  <1>2. k \in Keys /\ n \in Node /\ job[c].op = "put"
    BY <1>1 DEF TypeOK, Under, Node
  <1> HIDE DEF k, n
  <1>3. TypeOK'
    <2>1. /\ disturbed' \subseteq Calls /\ file' \in [Keys -> Node \cup {None}]
          /\ fill' \in [Node -> SUBSET Chunks] /\ owner' \in [Node -> Node \cup {None}]
          /\ handle' \in [Calls -> Node \cup {None}]
      BY <1>1, <1>2 DEF TypeOK, Node
    <2>2. stage' \in [Calls -> {"idle"} \cup Under \cup Ended]
      BY <1>1 DEF TypeOK, Under
    <2>3. /\ stage'[c] = "writing" /\ handle'[c] = n
          /\ \A d \in Calls \ {c} : stage'[d] = stage[d] /\ handle'[d] = handle[d]
      BY <1>1 DEF TypeOK
    <2>4. job[c] \in Jobs /\ job[c].key \in Keys
      BY <1>1 DEF TypeOK, Under
    <2> QED BY <1>1, <1>2, <2>1, <2>2, <2>3, <2>4 DEF TypeOK
  <1>4. \A m \in Node \ {n} : /\ fill'[m] = fill[m] /\ owner'[m] = owner[m]
    BY <1>1 DEF TypeOK
  <1>5. fill'[n] = {} /\ owner'[n] = c /\ n # None
    BY <1>1, <1>2 DEF TypeOK, Node
  <1>6. Untouched' /\ Objects' /\ Early'
    BY <1>1, <1>4, <1>5 DEF Untouched, Objects, Early, TypeOK, Node
  <1>7. \A d \in Calls \ {c} : stage'[d] = stage[d] /\ handle'[d] = handle[d]
    BY <1>1 DEF TypeOK
  <1>8. \A m \in Node \ {n} : owner[m] # c
    BY <1>1 DEF Owned
  <1>9. Owned'
    <2> SUFFICES ASSUME NEW m \in Node, owner'[m] \in Calls
                 PROVE  /\ handle'[owner'[m]] = m /\ job[owner'[m]].op = "put"
                        /\ stage'[owner'[m]] \in {"writing", "ok", "failed"}
                        /\ stage'[owner'[m]] # "failed" =>
                             \A i \in Chunks : i < pos[owner'[m]] => i \in fill'[m]
                        /\ stage'[owner'[m]] = "ok" => pos[owner'[m]] > Size
      BY <1>1 DEF Owned
    <2>1. CASE m = n
      <3>1. pos[c] = 1 /\ handle'[c] = n /\ stage'[c] = "writing"
        BY <1>1 DEF Early, TypeOK
      <3> QED BY <1>2, <1>5, <2>1, <3>1 DEF Chunks
    <2>2. CASE m # n
      BY <1>4, <1>7, <1>8, <2>2 DEF Owned
    <2> QED BY <2>1, <2>2
  <1>10. Present'
    BY <1>1, <1>2, <1>4, <1>5 DEF Present, TypeOK
  <1>11. \A m \in Node \ {n} : Settled(m) => Settled(m)'
    BY <1>1, <1>4, <1>7 DEF Settled
  <1>12. Reads'
    <2> SUFFICES ASSUME NEW r \in Calls, stage'[r] = "reading"
                 PROVE  /\ owner'[handle'[r]] # None
                        /\ r \notin disturbed' =>
                             /\ Settled(handle[r])'
                             /\ \A m \in Chunks : m < pos[r] => m \in got[r]
      BY <1>1 DEF Reads
    <2>1. r # c /\ stage[r] = "reading" /\ handle'[r] = handle[r] /\ handle[r] \in Node
      BY <1>1, <1>7 DEF TypeOK
    <2>2. CASE handle[r] = n
      BY <1>1, <1>5, <2>1, <2>2
    <2>3. CASE handle[r] # n
      BY <1>1, <1>4, <1>11, <2>1, <2>3 DEF Reads
    <2> QED BY <2>2, <2>3
  <1>13. Finds'
    BY <1>1, <1>2, <1>5, <1>7 DEF Finds, TypeOK
  <1>14. ReadsWhole'
    BY <1>1, <1>2, <1>7 DEF ReadsWhole
  <1> QED BY <1>3, <1>6, <1>9, <1>10, <1>12, <1>13, <1>14

LEMMA WriteChunkPreserves ==
  ASSUME Kept, NEW c \in Calls, WriteChunk(c)
  PROVE  Kept'
  <1> USE Constants DEF Kept
  <1>1. /\ stage[c] = "writing" /\ pos[c] \in 1 .. Size /\ handle[c] \in Node
        /\ fill' = [fill EXCEPT ![handle[c]] = @ \cup {pos[c]}]
        /\ pos' = [pos EXCEPT ![c] = @ + 1]
        /\ UNCHANGED <<provider, file, owner, stage, job, handle, got, disturbed, faults>>
    BY DEF WriteChunk, TypeOK
  <1>2. TypeOK'
    <2>1. fill' \in [Node -> SUBSET Chunks] /\ pos' \in [Calls -> 1 .. Size + 1]
      BY <1>1 DEF TypeOK, Chunks
    <2> QED BY <1>1, <2>1 DEF TypeOK
  <1>3. \A n \in Node : fill[n] \subseteq fill'[n]
    BY <1>1 DEF TypeOK
  <1>4. \A n \in Node : fill'[n] \subseteq Chunks
    BY <1>2 DEF TypeOK
  <1>5. Untouched' /\ Objects' /\ Present'
    BY <1>1, <1>3, <1>4 DEF Untouched, Objects, Present
  <1>6. Owned'
    <2> SUFFICES ASSUME NEW n \in Node, owner[n] \in Calls
                 PROVE  /\ handle[owner[n]] = n /\ job[owner[n]].op = "put"
                        /\ stage[owner[n]] \in {"writing", "ok", "failed"}
                        /\ stage[owner[n]] # "failed" =>
                             \A i \in Chunks : i < pos'[owner[n]] => i \in fill'[n]
                        /\ stage[owner[n]] = "ok" => pos'[owner[n]] > Size
      BY <1>1 DEF Owned
    <2>1. CASE owner[n] = c
      <3>1. handle[c] = n /\ fill'[n] = fill[n] \cup {pos[c]} /\ pos'[c] = pos[c] + 1
        BY <1>1, <2>1 DEF Owned, TypeOK
      <3> QED BY <1>1, <2>1, <3>1 DEF Owned, Chunks
    <2>2. CASE owner[n] # c
      BY <1>1, <1>3, <2>2 DEF Owned, TypeOK
    <2> QED BY <2>1, <2>2
  <1>7. \A d \in Calls \ {c} : pos'[d] = pos[d]
    BY <1>1 DEF TypeOK
  <1>8. Early' /\ Reads' /\ Finds' /\ ReadsWhole'
    BY <1>1, <1>7 DEF Early, Reads, Finds, ReadsWhole, Settled
  <1> QED BY <1>2, <1>5, <1>6, <1>8

LEMMA PutObjectPreserves ==
  ASSUME Kept, NEW c \in Calls, PutObject(c)
  PROVE  Kept'
  <1> USE Constants DEF Kept
  <1> DEFINE k == job[c].key
  <1>1. /\ provider = "s3" /\ job[c].op = "put" /\ k \in Keys /\ stage[c] = "asked"
        /\ stage' = [stage EXCEPT ![c] = "writing"]
        /\ file' = [file EXCEPT ![k] = c]
        /\ fill' = [fill EXCEPT ![c] = Chunks] /\ owner' = [owner EXCEPT ![c] = c]
        /\ handle' = [handle EXCEPT ![c] = c] /\ pos' = [pos EXCEPT ![c] = Size + 1]
        /\ UNCHANGED <<provider, job, got, disturbed, faults>>
    BY DEF PutObject, Asks, Moves
  <1> HIDE DEF k
  <1>2. c \in Node /\ c # None
    BY DEF Node
  <1>3. TypeOK'
    <2>1. pos' \in [Calls -> 1 .. Size + 1]
      BY <1>1 DEF TypeOK
    <2>2. \A d \in Calls : stage'[d] = "writing" => d = c \/ stage[d] = "writing"
      BY <1>1 DEF TypeOK
    <2> QED BY <1>1, <1>2, <2>1 DEF TypeOK, Under, k
  <1>4. \A n \in Node \ {c} : fill'[n] = fill[n] /\ owner'[n] = owner[n]
    BY <1>1 DEF TypeOK
  <1>5. fill'[c] = Chunks /\ owner'[c] = c
    BY <1>1, <1>2 DEF TypeOK
  <1>6. \A d \in Calls \ {c} : /\ stage'[d] = stage[d] /\ handle'[d] = handle[d]
                               /\ pos'[d] = pos[d]
    BY <1>1 DEF TypeOK
  <1>7. Untouched' /\ Objects'
    BY <1>1, <1>4, <1>5, <1>6 DEF Untouched, Objects, TypeOK
  <1>8. Owned'
    <2> SUFFICES ASSUME NEW n \in Node, owner'[n] \in Calls
                 PROVE  /\ handle'[owner'[n]] = n /\ job[owner'[n]].op = "put"
                        /\ stage'[owner'[n]] \in {"writing", "ok", "failed"}
                        /\ stage'[owner'[n]] # "failed" =>
                             \A i \in Chunks : i < pos'[owner'[n]] => i \in fill'[n]
                        /\ stage'[owner'[n]] = "ok" => pos'[owner'[n]] > Size
      BY <1>1 DEF Owned
    <2>1. CASE n = c
      BY <1>1, <1>5, <2>1 DEF TypeOK
    <2>2. CASE n # c
      <3>1. owner[n] # c
        BY <1>1, <2>2 DEF Owned
      <3> QED BY <1>4, <1>6, <2>2, <3>1 DEF Owned
    <2> QED BY <2>1, <2>2
  <1>9. Present'
    BY <1>1, <1>2, <1>4, <1>5 DEF Present, TypeOK
  <1>10. Early' /\ Finds' /\ ReadsWhole'
    BY <1>1, <1>6 DEF Early, Finds, ReadsWhole, TypeOK
  <1>11. Reads'
    <2> SUFFICES ASSUME NEW r \in Calls, stage'[r] = "reading"
                 PROVE  /\ owner'[handle'[r]] # None
                        /\ r \notin disturbed =>
                             \A m \in Chunks : m < pos'[r] => m \in got[r]
      BY <1>1 DEF Reads, Settled
    <2>1. r # c /\ handle[r] \in Node
      BY <1>1, <1>6 DEF TypeOK
    <2> QED BY <1>2, <1>4, <1>5, <1>6, <2>1 DEF Reads
  <1> QED BY <1>3, <1>7, <1>8, <1>9, <1>10, <1>11

LEMMA DeletePreserves ==
  ASSUME Kept, NEW c \in Calls, Delete(c)
  PROVE  Kept'
  <1> USE Constants DEF Kept
  <1> DEFINE k == job[c].key
  <1>1. /\ job[c].op = "delete" /\ k \in Keys /\ stage[c] = "asked"
        /\ stage' = [stage EXCEPT ![c] = "deleted"]
        /\ file' = [file EXCEPT ![k] = None]
        /\ disturbed' = disturbed \cup
                          {r \in Calls : stage[r] = "found" /\ job[r].key = k}
        /\ UNCHANGED <<provider, fill, owner, job, handle, pos, got, faults>>
    BY DEF Delete, Asks, Moves, access
  <1>2. k = job[c].key
    OBVIOUS
  <1> HIDE DEF k
  <1>3. /\ stage'[c] = "deleted"
        /\ \A d \in Calls \ {c} : stage'[d] = stage[d]
        /\ file'[k] = None /\ \A l \in Keys \ {k} : file'[l] = file[l]
    BY <1>1 DEF TypeOK
  <1>4. TypeOK'
    <2>1. /\ disturbed' \subseteq Calls /\ file' \in [Keys -> Node \cup {None}]
          /\ stage' \in [Calls -> {"idle"} \cup Under \cup Ended]
      BY <1>1 DEF TypeOK, Under
    <2> QED BY <1>1, <1>2, <1>3, <2>1 DEF TypeOK, Under
  <1>5. Untouched' /\ Owned' /\ Objects' /\ Present'
    BY <1>1, <1>3 DEF Untouched, Owned, Objects, Present
  <1>6. \A n \in Node : Settled(n) => Settled(n)'
    BY <1>1, <1>3 DEF Settled
  <1>7. Early' /\ Reads'
    BY <1>1, <1>3, <1>6 DEF Early, Reads, TypeOK
  <1>8. Finds'
    BY <1>1, <1>3 DEF Finds, TypeOK
  <1>9. ReadsWhole'
    BY <1>1, <1>3 DEF ReadsWhole
  <1> QED BY <1>4, <1>5, <1>7, <1>8, <1>9

LEMMA OpenReadPreserves ==
  ASSUME Kept, NEW c \in Calls, OpenRead(c)
  PROVE  Kept'
  <1> USE Constants DEF Kept
  <1> DEFINE n == file[job[c].key]
  <1>1. /\ stage[c] = "found" /\ n # None
        /\ stage' = [stage EXCEPT ![c] = "reading"]
        /\ handle' = [handle EXCEPT ![c] = n]
        /\ disturbed' = IF Settled(n) THEN disturbed ELSE disturbed \cup {c}
        /\ UNCHANGED <<provider, file, fill, owner, job, pos, got, faults>>
    BY DEF OpenRead, Moves, files
  <1>2. /\ n \in Node /\ job[c].key \in Keys /\ job[c].op = "get"
        /\ job[c] \in Jobs /\ owner[n] # None /\ pos[c] = 1
    BY <1>1 DEF TypeOK, Under, Present, Early
  <1> HIDE DEF n
  <1>3. /\ stage'[c] = "reading" /\ handle'[c] = n
        /\ \A d \in Calls \ {c} : stage'[d] = stage[d] /\ handle'[d] = handle[d]
    BY <1>1 DEF TypeOK
  <1>4. TypeOK'
    <2>1. /\ disturbed' \subseteq Calls /\ handle' \in [Calls -> Node \cup {None}]
          /\ stage' \in [Calls -> {"idle"} \cup Under \cup Ended]
      BY <1>1, <1>2 DEF TypeOK, Under
    <2> QED BY <1>1, <1>2, <1>3, <2>1 DEF TypeOK
  <1>5. Untouched' /\ Objects' /\ Present' /\ Early'
    BY <1>1, <1>3 DEF Untouched, Objects, Present, Early
  <1>6. Owned'
    BY <1>1, <1>3 DEF Owned
  <1>7. \A m \in Node : Settled(m) => Settled(m)'
    BY <1>1, <1>3 DEF Settled
  <1>8. Reads'
    <2> SUFFICES ASSUME NEW r \in Calls, stage'[r] = "reading"
                 PROVE  /\ owner[handle'[r]] # None
                        /\ r \notin disturbed' =>
                             /\ Settled(handle[r])'
                             /\ \A m \in Chunks : m < pos[r] => m \in got[r]
      BY <1>1 DEF Reads, Settled
    <2>1. CASE r = c
      <3>1. Settled(n) => Settled(handle[c])'
        BY <1>1, <1>3 DEF Settled
      <3> QED BY <1>1, <1>2, <1>3, <2>1, <3>1 DEF Chunks
    <2>2. CASE r # c
      <3>1. /\ stage[r] = "reading" /\ handle'[r] = handle[r] /\ handle[r] \in Node
            /\ (r \notin disturbed' => r \notin disturbed)
        BY <1>1, <1>3, <2>2 DEF TypeOK
      <3>2. owner[handle[r]] # None
        BY <3>1 DEF Reads
      <3>3. ASSUME r \notin disturbed'
            PROVE  Settled(handle[r]) /\ \A m \in Chunks : m < pos[r] => m \in got[r]
        BY <3>1, <3>3 DEF Reads
      <3>4. Settled(handle[r]) => Settled(handle[r])'
        BY <1>1, <1>3, <3>1 DEF Settled
      <3> QED BY <3>1, <3>2, <3>3, <3>4
    <2> QED BY <2>1, <2>2
  <1>9. Finds' /\ ReadsWhole'
    BY <1>1, <1>3 DEF Finds, ReadsWhole
  <1> QED BY <1>4, <1>5, <1>6, <1>8, <1>9

LEMMA ReadChunkPreserves ==
  ASSUME Kept, NEW c \in Calls, ReadChunk(c)
  PROVE  Kept'
  <1> USE Constants DEF Kept
  <1>1. /\ stage[c] = "reading" /\ \E n \in fill[handle[c]] : n >= pos[c]
        /\ got' = [got EXCEPT ![c] = @ \cup ({pos[c]} \cap fill[handle[c]])]
        /\ pos' = [pos EXCEPT ![c] = @ + 1]
        /\ UNCHANGED <<provider, file, fill, owner, stage, job, handle, disturbed, faults>>
    BY DEF ReadChunk, files
  <1>2. /\ handle[c] \in Node /\ fill[handle[c]] \subseteq Chunks
        /\ pos[c] \in 1 .. Size /\ job[c].op = "get"
    <2>1. handle[c] \in Node /\ fill[handle[c]] \subseteq Chunks /\ pos[c] \in 1 .. Size + 1
          /\ job[c].op = "get"
      BY <1>1 DEF TypeOK
    <2> QED BY <1>1, <2>1 DEF Chunks
  <1>3. /\ pos'[c] = pos[c] + 1 /\ got'[c] = got[c] \cup ({pos[c]} \cap fill[handle[c]])
        /\ \A d \in Calls \ {c} : pos'[d] = pos[d] /\ got'[d] = got[d]
    BY <1>1 DEF TypeOK
  <1>4. TypeOK'
    <2>1. pos' \in [Calls -> 1 .. Size + 1] /\ got' \in [Calls -> SUBSET Chunks]
      BY <1>1, <1>2 DEF TypeOK
    <2> QED BY <1>1, <2>1 DEF TypeOK
  <1>5. Untouched' /\ Objects' /\ Present' /\ Finds'
    BY <1>1 DEF Untouched, Objects, Present, Finds
  <1>6. Owned' /\ Early'
    BY <1>1, <1>3 DEF Owned, Early
  <1>7. Reads'
    <2> SUFFICES ASSUME NEW r \in Calls, stage[r] = "reading", r \notin disturbed,
                        Settled(handle[r]), owner[handle[r]] # None,
                        \A m \in Chunks : m < pos[r] => m \in got[r]
                 PROVE  \A m \in Chunks : m < pos'[r] => m \in got'[r]
      BY <1>1 DEF Reads, Settled
    <2>1. CASE r = c
      <3>1. fill[handle[c]] = Chunks
        BY <1>2, <2>1, SettledIsWhole
      <3> QED BY <1>2, <1>3, <2>1, <3>1 DEF Chunks
    <2>2. CASE r # c
      BY <1>3, <2>2
    <2> QED BY <2>1, <2>2
  <1>8. ReadsWhole'
    BY <1>1, <1>3 DEF ReadsWhole
  <1> QED BY <1>4, <1>5, <1>6, <1>7, <1>8

-----------------------------------------------------------------------------
LEMMA StepKept == Kept /\ [Next]_vars => Kept'
  <1> SUFFICES ASSUME Kept, [Next]_vars PROVE Kept'
    OBVIOUS
  <1>1. ASSUME NEW c \in Calls, (\E j \in Jobs : Ask(c, j)) \/ Step(c) \/ Breaks(c)
        PROVE  Kept'
    BY <1>1, QuietSteps, OpenWritePreserves, WriteChunkPreserves, PutObjectPreserves,
       DeletePreserves, OpenReadPreserves, ReadChunkPreserves DEF Step
  <1>2. CASE UNCHANGED vars
    BY <1>2, QuietPreserves DEF vars, files, access, Kept, TypeOK, Quiet
  <1> QED BY <1>1, <1>2, CrashPreserves DEF Next

LEMMA AlwaysKept == Spec => []Kept
  BY InitKept, StepKept, PTL DEF Spec

(* The types, with what each stage says of its call (Storage.TypeOK).      *)
THEOREM TypeCorrect == Spec => []TypeOK
  BY AlwaysKept, PTL DEF Kept

(* A file is whole when the last put that emptied it ended well, whatever  *)
(* other puts, failures and crashes have met on it (LocalProvider.ts:45,   *)
(* 50).                                                                    *)
THEOREM LastPutCountsAlways == Spec => []LastPutCounts
  <1>1. Kept => LastPutCounts
    <2> SUFFICES ASSUME Kept, NEW k \in Keys, file[k] # None, Settled(file[k])
                 PROVE  fill[file[k]] = Chunks
      BY DEF LastPutCounts
    <2>1. file[k] \in Node /\ owner[file[k]] # None
      BY DEF Kept, TypeOK, Present
    <2> QED BY <2>1, SettledIsWhole
  <1> QED BY <1>1, AlwaysKept, PTL

(* A download nobody disturbs delivers the whole file, and locally it gets *)
(* one when it was told so (LocalProvider.ts:38).                          *)
THEOREM ReadsWholeAlways == Spec => []ReadsWhole
  BY AlwaysKept, PTL DEF Kept

-----------------------------------------------------------------------------
LEMMA InitStored == Init => Store!Init
  BY DEF Init, Store!Init, Promised

(* A call moves, and the store sees it move                                *)
LEMMA Seen ==
  ASSUME TypeOK, NEW c \in Calls, NEW s, stage' = [stage EXCEPT ![c] = s]
  PROVE  [d \in Calls |-> Promised(stage'[d])] =
           [[d \in Calls |-> Promised(stage[d])] EXCEPT ![c] = Promised(s)]
  BY DEF TypeOK

LEMMA StepStored ==
  ASSUME TypeOK, [Next]_vars
  PROVE  [Store!Next]_(Store!vars)
  <1> DEFINE keys == {k \in Keys : file[k] # None}
             did == [c \in Calls |-> Promised(stage[c])]
             Stutter == keys' = keys /\ job' = job /\ did' = did
  <1> USE Constants
  <1>1. Stutter => [Store!Next]_(Store!vars)
    BY DEF Store!vars
  <1>2. ASSUME NEW c \in Calls, NEW j \in Jobs, Ask(c, j)
        PROVE  Store!Next
    <2>1. did[c] = "idle" /\ did' = [did EXCEPT ![c] = "asked"]
      BY <1>2, Seen DEF Ask, Moves, Promised
    <2>2. job' = [job EXCEPT ![c] = j] /\ keys' = keys
      BY <1>2 DEF Ask, files
    <2>3. Store!Ask(c, j)
      BY <2>1, <2>2 DEF Store!Ask, Store!Moves
    <2> QED BY <2>3 DEF Store!Next
  <1>3. ASSUME NEW c \in Calls, Keyless(c) \/ DeleteMisses(c) \/ StreamBreaks(c) \/ Breaks(c)
        PROVE  Store!Next
    <2>1. /\ UNCHANGED <<file, job>> /\ stage[c] \in Under
          /\ \E s \in {"missing", "broken", "failed"} : stage' = [stage EXCEPT ![c] = s]
      BY <1>3 DEF Keyless, DeleteMisses, StreamBreaks, Breaks, Moves, files, Under
    <2>2. did[c] \in {"asked", "taken"} /\ did' = [did EXCEPT ![c] = "failed"]
      BY <2>1, Seen DEF Promised, Under
    <2>3. Store!Fail(c)
      BY <2>1, <2>2 DEF Store!Fail, Store!Moves, Store!Under
    <2> QED BY <2>3 DEF Store!Next
  <1>4. ASSUME NEW c \in Calls, EndWrite(c) \/ EndDelete(c) \/ EndRead(c)
        PROVE  Store!Next
    <2>1. /\ UNCHANGED <<file, job>> /\ stage[c] \in {"writing", "deleted", "reading"}
          /\ stage' = [stage EXCEPT ![c] = "ok"]
      BY <1>4 DEF EndWrite, EndDelete, EndRead, Moves, files
    <2>2. did[c] = "taken" /\ did' = [did EXCEPT ![c] = "ok"]
      BY <2>1, Seen DEF Promised
    <2>3. Store!Succeed(c)
      BY <2>1, <2>2 DEF Store!Succeed, Store!Moves
    <2> QED BY <2>3 DEF Store!Next
  <1>5. ASSUME NEW c \in Calls, OpenWrite(c) \/ PutObject(c)
        PROVE  Store!Next
    <2>1. /\ stage[c] \in {"prepared", "asked"} /\ stage' = [stage EXCEPT ![c] = "writing"]
          /\ job' = job /\ job[c].op = "put" /\ job[c].key \in Keys
      BY <1>5 DEF OpenWrite, PutObject, Moves, Asks, TypeOK, Under
    <2>2. \E n \in Node : n # None /\ file' = [file EXCEPT ![job[c].key] = n]
      BY <1>5, <2>1 DEF OpenWrite, PutObject, TypeOK, Node
    <2>3. keys' = keys \cup {job[c].key}
      BY <2>1, <2>2 DEF TypeOK
    <2>4. did[c] = "asked" /\ did' = [did EXCEPT ![c] = "taken"]
      BY <2>1, Seen DEF Promised
    <2>5. Store!Put(c)
      BY <2>1, <2>3, <2>4 DEF Store!Put, Store!Moves
    <2> QED BY <2>5 DEF Store!Next
  <1>6. ASSUME NEW c \in Calls, Delete(c)
        PROVE  Store!Next
    <2>1. /\ stage[c] = "asked" /\ stage' = [stage EXCEPT ![c] = "deleted"]
          /\ job' = job /\ job[c].op = "delete" /\ job[c].key \in Keys
          /\ file' = [file EXCEPT ![job[c].key] = None]
      BY <1>6 DEF Delete, Asks, Moves
    <2>2. keys' = keys \ {job[c].key}
      BY <2>1 DEF TypeOK
    <2>3. did[c] = "asked" /\ did' = [did EXCEPT ![c] = "taken"]
      BY <2>1, Seen DEF Promised
    <2>4. Store!Delete(c)
      BY <2>1, <2>2, <2>3 DEF Store!Delete, Store!Moves
    <2> QED BY <2>4 DEF Store!Next
  <1>7. ASSUME NEW c \in Calls, OpenRead(c)
        PROVE  Store!Next
    <2>1. /\ stage[c] = "found" /\ stage' = [stage EXCEPT ![c] = "reading"]
          /\ UNCHANGED <<file, job>> /\ job[c].op = "get"
          /\ job[c].key \in Keys /\ file[job[c].key] # None
      BY <1>7 DEF OpenRead, Moves, files, TypeOK, Under
    <2>2. did[c] = "asked" /\ did' = [did EXCEPT ![c] = "taken"]
      BY <2>1, Seen DEF Promised
    <2>3. Store!Find(c)
      BY <2>1, <2>2 DEF Store!Find, Store!Moves
    <2> QED BY <2>3 DEF Store!Next
  <1>8. ASSUME NEW c \in Calls, Prepare(c)
        PROVE  Stutter
    <2>1. /\ UNCHANGED <<file, job>> /\ stage[c] = "asked"
          /\ stage' = [stage EXCEPT ![c] = "prepared"]
      BY <1>8 DEF Prepare, Moves, files
    <2> QED BY <2>1, Seen DEF Promised
  <1>9. ASSUME NEW c \in Calls, Look(c)
        PROVE  Stutter \/ Store!Next
    <2>1. /\ UNCHANGED <<file, job>> /\ stage[c] = "asked"
          /\ \/ stage' = [stage EXCEPT ![c] = "found"]
             \/ stage' = [stage EXCEPT ![c] = "missing"]
      BY <1>9 DEF Look, Moves, files
    <2>2. CASE stage' = [stage EXCEPT ![c] = "found"]
      BY <2>1, <2>2, Seen DEF Promised
    <2>3. CASE stage' = [stage EXCEPT ![c] = "missing"]
      <3>1. did[c] = "asked" /\ did' = [did EXCEPT ![c] = "failed"]
        BY <2>1, <2>3, Seen DEF Promised
      <3>2. Store!Fail(c)
        BY <2>1, <3>1 DEF Store!Fail, Store!Moves, Store!Under
      <3> QED BY <3>2 DEF Store!Next
    <2> QED BY <2>1, <2>2, <2>3
  <1>10. ASSUME NEW c \in Calls, WriteChunk(c) \/ ReadChunk(c)
         PROVE  Stutter
    BY <1>10 DEF WriteChunk, ReadChunk, files
  <1>11. CASE Crash
    <2>1. did' = [c \in Calls |-> IF did[c] \in {"asked", "taken"} THEN "failed" ELSE did[c]]
      BY <1>11 DEF Crash, Promised, Under, Ended, TypeOK
    <2>2. keys' = keys /\ job' = job
      BY <1>11 DEF Crash, files
    <2>3. Store!Die
      BY <2>1, <2>2 DEF Store!Die, Store!Under
    <2> QED BY <2>3 DEF Store!Next
  <1>12. CASE UNCHANGED vars
    BY <1>12, <1>1 DEF vars, files
  <1> HIDE DEF Stutter
  <1> QED BY <1>1, <1>2, <1>3, <1>4, <1>5, <1>6, <1>7, <1>8, <1>9, <1>10, <1>11, <1>12
          DEF Next, Step

(* What S3Provider.spec.ts:91 tests of a missing object is so of a missing *)
(* file: a local get of it is refused, and a stream breaks only when the   *)
(* file has been deleted since the look (LocalProvider.ts:38).             *)
THEOREM LocalFindsOut == Spec => []((provider = "local") => MissingIsNotFound)
  <1>1. TypeOK /\ ReadsWhole => ((provider = "local") => MissingIsNotFound)
    BY Constants DEF TypeOK, ReadsWhole, MissingIsNotFound
  <1> QED BY <1>1, TypeCorrect, ReadsWholeAlways, PTL

(* Both providers are the store the resource service takes them for        *)
(* (FileProvider.ts:3-12).                                                 *)
THEOREM ProvidersAreStores == Spec => RefinesStore
  <1>1. TypeOK /\ [Next]_vars => [Store!Next]_(Store!vars)
    BY StepStored
  <1> QED BY <1>1, InitStored, TypeCorrect, PTL DEF Spec, RefinesStore, Store!Spec
=============================================================================
