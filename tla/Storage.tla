------------------------------ MODULE Storage ------------------------------
(***************************************************************************)
(* StorageService over LocalProvider or S3Provider: writeFile, deleteFile  *)
(* and getFile (with the download that reads its stream), called any way   *)
(* at once.                                                                *)
(*                                                                         *)
(* Locally a put opens the file of its key, which empties the one that is  *)
(* there, and writes it chunk by chunk; a get looks whether the file is    *)
(* readable and returns a stream that opens it later and reads what it     *)
(* finds; an unlink takes the name away, while who has the file open goes  *)
(* on.  On S3 an object is replaced as a whole, and a stream is of the     *)
(* object there was when it was opened.                                    *)
(*                                                                         *)
(* The key of a file is made of the hash of its content, so every put of a *)
(* key writes the same.  A file (inode or object) bears the name of the    *)
(* call that made it, or of its key when it was there before.              *)
(***************************************************************************)
EXTENDS Integers

CONSTANTS Calls, Keys,
          Jobs,        \* what a call may ask for
          Size,        \* chunks of a file
          Providers,   \* of "local" and "s3"
          MaxFaults,   \* bound: failures of storage or instance
          None, NoJob

Job == [op : {"put", "get", "delete"}, key : Keys \cup {None}]

ASSUME StorageAssumption ==
  /\ Jobs \subseteq Job /\ NoJob \notin Jobs
  /\ Size \in Nat \ {0} /\ MaxFaults \in Nat
  /\ Providers \subseteq {"local", "s3"}
  /\ Calls \cap Keys = {} /\ None \notin Calls \cup Keys

VARIABLES provider,
          file,        \* the file of each key, or None
          fill,        \* the chunks each file holds
          owner,       \* the call that opened the file for writing last
          stage, job,
          handle,      \* the file a call has open
          pos,         \* the chunk it writes or reads next
          got,         \* the chunks a get has delivered
          disturbed,   \* the gets that met another call, see below
          faults
files == <<file, fill, owner>>
access == <<handle, pos, got>>
vars == <<provider, files, stage, job, access, disturbed, faults>>

Chunks == 1 .. Size
Node == Calls \cup Keys
Under == {"asked", "prepared", "writing", "found", "reading", "deleted"}
Ended == {"ok", "missing", "broken", "failed"}

TypeOK ==
  /\ provider \in Providers
  /\ file \in [Keys -> Node \cup {None}]
  /\ fill \in [Node -> SUBSET Chunks] /\ owner \in [Node -> Node \cup {None}]
  /\ stage \in [Calls -> {"idle"} \cup Under \cup Ended]
  /\ job \in [Calls -> Jobs \cup {NoJob}]
  /\ handle \in [Calls -> Node \cup {None}]
  /\ pos \in [Calls -> 1 .. Size + 1] /\ got \in [Calls -> SUBSET Chunks]
  /\ disturbed \subseteq Calls /\ faults \in 0 .. MaxFaults
  /\ \A c \in Calls :
       /\ stage[c] # "idle" => job[c] \in Jobs
       /\ stage[c] \in Under \ {"asked"} => job[c].key \in Keys
       /\ stage[c] \in {"prepared", "writing"} => job[c].op = "put"
       /\ stage[c] \in {"found", "reading", "broken"} => job[c].op = "get"
       /\ stage[c] = "deleted" => job[c].op = "delete"
       /\ stage[c] \in {"writing", "reading"} => handle[c] \in Node

Init ==
  /\ provider \in Providers
  /\ file \in {f \in [Keys -> Keys \cup {None}] : \A k \in Keys : f[k] \in {k, None}}
  /\ fill = [n \in Node |-> IF n \in Keys THEN Chunks ELSE {}]
  /\ owner = [n \in Node |-> IF n \in Keys THEN n ELSE None]
  /\ stage = [c \in Calls |-> "idle"] /\ job = [c \in Calls |-> NoJob]
  /\ handle = [c \in Calls |-> None] /\ pos = [c \in Calls |-> 1]
  /\ got = [c \in Calls |-> {}] /\ disturbed = {} /\ faults = 0

-----------------------------------------------------------------------------
Moves(c, from, to) == stage[c] = from /\ stage' = [stage EXCEPT ![c] = to]
Asks(c, op) == stage[c] = "asked" /\ job[c].op = op /\ job[c].key \in Keys

(* The last who opened the file for writing has ended well                 *)
Settled(n) ==
  \/ provider = "s3" \/ owner[n] \in Keys
  \/ owner[n] \in Calls /\ stage[owner[n]] = "ok"

Ask(c, j) ==
  /\ Moves(c, "idle", "asked") /\ job' = [job EXCEPT ![c] = j]
  /\ UNCHANGED <<provider, files, access, disturbed, faults>>

(* hasKey, ensureWritable                                                  *)
Keyless(c) ==
  /\ Moves(c, "asked", "missing") /\ job[c].key = None
  /\ UNCHANGED <<provider, files, job, access, disturbed, faults>>

-----------------------------------------------------------------------------
(* The directory is there or made; nobody removes one                      *)
Prepare(c) ==
  /\ provider = "local" /\ Asks(c, "put") /\ Moves(c, "asked", "prepared")
  /\ UNCHANGED <<provider, files, job, access, disturbed, faults>>

OpenWrite(c) ==
  LET k == job[c].key
      n == IF file[k] = None THEN c ELSE file[k]
  IN /\ Moves(c, "prepared", "writing")
     /\ file' = [file EXCEPT ![k] = n]
     /\ fill' = [fill EXCEPT ![n] = {}] /\ owner' = [owner EXCEPT ![n] = c]
     /\ handle' = [handle EXCEPT ![c] = n]
     /\ disturbed' = disturbed \cup
                       {r \in Calls : stage[r] = "reading" /\ handle[r] = n}
     /\ UNCHANGED <<provider, job, pos, got, faults>>

(* A faulty variant of WriteChunk: the file is found by its name each time *)
WriteByName(c) ==
  LET k == job[c].key
      n == IF file[k] = None THEN c ELSE file[k]
  IN /\ stage[c] = "writing" /\ pos[c] <= Size
     /\ file' = [file EXCEPT ![k] = n]
     /\ fill' = [fill EXCEPT ![n] = @ \cup {pos[c]}]
     /\ pos' = [pos EXCEPT ![c] = @ + 1]
     /\ UNCHANGED <<provider, owner, stage, job, handle, got, disturbed, faults>>

(* Each writer goes on where it is, whoever empties the file meanwhile     *)
WriteChunk(c) ==
  /\ stage[c] = "writing" /\ pos[c] <= Size
  /\ fill' = [fill EXCEPT ![handle[c]] = @ \cup {pos[c]}]
  /\ pos' = [pos EXCEPT ![c] = @ + 1]
  /\ UNCHANGED <<provider, file, owner, stage, job, handle, got, disturbed, faults>>

(* A faulty variant of EndWrite: the last chunk is not waited for          *)
EndWriteEarly(c) ==
  /\ pos[c] >= Size /\ Moves(c, "writing", "ok")
  /\ UNCHANGED <<provider, files, job, access, disturbed, faults>>

(* The file is closed; putObject is answered                               *)
EndWrite(c) ==
  /\ pos[c] > Size /\ Moves(c, "writing", "ok")
  /\ UNCHANGED <<provider, files, job, access, disturbed, faults>>

PutObject(c) ==
  /\ provider = "s3" /\ Asks(c, "put") /\ Moves(c, "asked", "writing")
  /\ file' = [file EXCEPT ![job[c].key] = c]
  /\ fill' = [fill EXCEPT ![c] = Chunks] /\ owner' = [owner EXCEPT ![c] = c]
  /\ handle' = [handle EXCEPT ![c] = c] /\ pos' = [pos EXCEPT ![c] = Size + 1]
  /\ UNCHANGED <<provider, job, got, disturbed, faults>>

-----------------------------------------------------------------------------
(* S3 does not mind that there is no such object                           *)
Delete(c) ==
  LET k == job[c].key
  IN /\ Asks(c, "delete") /\ (file[k] # None \/ provider = "s3")
     /\ Moves(c, "asked", "deleted")
     /\ file' = [file EXCEPT ![k] = None]
     /\ disturbed' = disturbed \cup
                       {r \in Calls : stage[r] = "found" /\ job[r].key = k}
     /\ UNCHANGED <<provider, fill, owner, job, access, faults>>

DeleteMisses(c) ==
  /\ provider = "local" /\ Asks(c, "delete") /\ file[job[c].key] = None
  /\ Moves(c, "asked", "failed")
  /\ UNCHANGED <<provider, files, job, access, disturbed, faults>>

EndDelete(c) ==
  /\ Moves(c, "deleted", "ok")
  /\ UNCHANGED <<provider, files, job, access, disturbed, faults>>

-----------------------------------------------------------------------------
(* Faulty variants of Look: nobody looks for the file; or for its key      *)
LookAway(c) ==
  /\ Asks(c, "get") /\ Moves(c, "asked", "found")
  /\ UNCHANGED <<provider, files, job, access, disturbed, faults>>
LookBlind(c) ==
  /\ Moves(c, "asked", "found") /\ job[c].op = "get"
  /\ UNCHANGED <<provider, files, job, access, disturbed, faults>>

(* isReadable; checkFileExists of S3Provider is true whatever headObject   *)
(* answers                                                                 *)
Look(c) ==
  /\ Asks(c, "get")
  /\ Moves(c, "asked", IF file[job[c].key] # None \/ provider = "s3"
                       THEN "found" ELSE "missing")
  /\ UNCHANGED <<provider, files, job, access, disturbed, faults>>

(* The caller has its stream, which opens the file now, or fails to        *)
OpenRead(c) ==
  LET n == file[job[c].key]
  IN /\ Moves(c, "found", "reading") /\ n # None
     /\ handle' = [handle EXCEPT ![c] = n]
     /\ disturbed' = IF Settled(n) THEN disturbed ELSE disturbed \cup {c}
     /\ UNCHANGED <<provider, files, job, pos, got, faults>>

StreamBreaks(c) ==
  /\ Moves(c, "found", "broken") /\ file[job[c].key] = None
  /\ UNCHANGED <<provider, files, job, access, disturbed, faults>>

(* A chunk nobody has written reads as zeros when one behind it is written *)
ReadChunk(c) ==
  /\ stage[c] = "reading" /\ \E n \in fill[handle[c]] : n >= pos[c]
  /\ got' = [got EXCEPT ![c] = @ \cup ({pos[c]} \cap fill[handle[c]])]
  /\ pos' = [pos EXCEPT ![c] = @ + 1]
  /\ UNCHANGED <<provider, files, stage, job, handle, disturbed, faults>>

(* A faulty variant of EndRead: it waits for the file it expects           *)
EndReadFull(c) ==
  /\ pos[c] > Size /\ Moves(c, "reading", "ok")
  /\ UNCHANGED <<provider, files, job, access, disturbed, faults>>

(* The end of the file as it is now                                        *)
EndRead(c) ==
  /\ Moves(c, "reading", "ok") /\ \A n \in fill[handle[c]] : n < pos[c]
  /\ UNCHANGED <<provider, files, job, access, disturbed, faults>>

-----------------------------------------------------------------------------
Fault == faults < MaxFaults /\ faults' = faults + 1

(* An I/O error, a source that errs, an answer of S3 without an ETag; what *)
(* has been written stays                                                  *)
Breaks(c) ==
  /\ Fault /\ stage[c] \in Under
  /\ stage' = [stage EXCEPT ![c] = "failed"]
  /\ UNCHANGED <<provider, files, job, access, disturbed>>

Crash ==
  /\ Fault /\ \E c \in Calls : stage[c] \in Under
  /\ stage' = [c \in Calls |-> IF stage[c] \in Under THEN "failed" ELSE stage[c]]
  /\ UNCHANGED <<provider, files, job, access, disturbed>>

Step(c) == \/ Keyless(c)
           \/ Prepare(c) \/ OpenWrite(c) \/ WriteChunk(c) \/ EndWrite(c) \/ PutObject(c)
           \/ Delete(c) \/ DeleteMisses(c) \/ EndDelete(c)
           \/ Look(c) \/ OpenRead(c) \/ StreamBreaks(c) \/ ReadChunk(c) \/ EndRead(c)

Next == \/ \E c \in Calls : (\E j \in Jobs : Ask(c, j)) \/ Step(c) \/ Breaks(c)
        \/ Crash

(* The operating system and S3 carry out what they are asked               *)
Fairness == \A c \in Calls : WF_vars(Step(c))
Spec == Init /\ [][Next]_vars /\ Fairness

-----------------------------------------------------------------------------
(* Whatever puts, failures and crashes have met on it: a file is whole     *)
(* when the last put that emptied it ended well (LocalProvider.ts:45, 50). *)
LastPutCounts ==
  \A k \in Keys : file[k] # None /\ Settled(file[k]) => fill[file[k]] = Chunks

(* A download delivers the whole file, though it be deleted meanwhile,     *)
(* unless a put was at work on it or had failed; and locally its stream    *)
(* opens, unless the file was deleted after the look (LocalProvider.ts:38, *)
(* 41; resource.controller.ts:272).                                        *)
ReadsWhole ==
  \A c \in Calls \ disturbed : stage[c] # "idle" /\ job[c].op = "get" =>
    /\ stage[c] = "ok" => got[c] = Chunks
    /\ stage[c] = "broken" => provider = "s3"

(* Every call is answered, whoever empties or deletes its file.            *)
CallsEnd == \A c \in Calls : stage[c] = "asked" ~> stage[c] \in Ended

(* Both providers are the store the resource service takes them for: the   *)
(* effect of a put is the moment its file is opened, that of a get the     *)
(* moment its stream does (LocalProvider.ts:35-71, S3Provider.ts:57-102).  *)
Promised(s) ==
  CASE s \in {"asked", "prepared", "found"} -> "asked"
    [] s \in {"writing", "deleted", "reading"} -> "taken"
    [] s \in {"missing", "broken", "failed"} -> "failed"
    [] OTHER -> s
Store == INSTANCE FileStore WITH
           present <- {k \in Keys : file[k] # None},
           did <- [c \in Calls |-> Promised(stage[c])]
RefinesStore == Store!Spec

-----------------------------------------------------------------------------
(* S3Provider.spec.ts:91, "should fail on missing file": a file that is    *)
(* not there is not found, and no stream is returned for it.               *)
MissingIsNotFound ==
  \A c \in Calls : stage[c] = "broken" => c \in disturbed
=============================================================================
