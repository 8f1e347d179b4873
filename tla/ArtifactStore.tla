----------------------------- MODULE ArtifactStore -----------------------------
(***************************************************************************)
(* FileArtifactStore.put_json, for the writers of one digest: several      *)
(* handlers may store the same content at once, on one file system.  A row *)
(* that names the digest is committed only after put_json has answered.    *)
(*                                                                         *)
(* What a process sees is not yet what is on disk: a file's bytes and a    *)
(* directory's entries survive a power failure for certain only once they  *)
(* are synced.  A process that dies leaves what it wrote to the system.    *)
(* The file system is external; the database is durable.                   *)
(***************************************************************************)
EXTENDS Naturals, FiniteSets

CONSTANT Writers   \* threads and processes that store this digest

VARIABLES
  store,      \* writer -> where its put_json is
  entry,      \* what processes find under <digest>.json.gz
  onDisk,     \* what the disk has under that name
  rows        \* kinds of rows committed with the digest: by a writer that
              \* put the file there, or by one that found it there

artifactVars == <<store, entry, onDisk, rows>>

\* torn: some or all of the bytes are missing.
Contents == {"absent", "whole", "torn"}

\* called, verifying, creating, writing, replacing, syncing, answering;
\* `placed` is how it got its answer, `synced` whether its file's bytes are.
Call(at) == [at |-> at, placed |-> FALSE, synced |-> FALSE]

ArtifactInit ==
  /\ store = [w \in Writers |-> Call("away")]
  /\ entry = [content |-> "absent", synced |-> TRUE]
  /\ onDisk = "absent"
  /\ rows = {}

At(w, at) == store[w].at = at
StoreGoes(w, at) == store' = [store EXCEPT ![w].at = at]
DirectoryUnchanged == UNCHANGED <<entry, onDisk, rows>>
-----------------------------------------------------------------------------
(* Wrong variant for a mutation run: the entry is answered before its sync. *)

ReplaceAndAnswer(w) ==
  /\ At(w, "replacing")
  /\ entry' = [content |-> "whole", synced |-> store[w].synced]
  /\ store' = [store EXCEPT ![w].at = "answering", ![w].placed = TRUE]
  /\ UNCHANGED <<onDisk, rows>>
-----------------------------------------------------------------------------
PutJson(w) ==
  /\ At(w, "away")
  /\ store' = [store EXCEPT ![w] = Call("called")]
  /\ DirectoryUnchanged

Exists(w) ==
  /\ At(w, "called")
  /\ StoreGoes(w, IF entry.content = "absent" THEN "creating" ELSE "verifying")
  /\ DirectoryUnchanged

\* get_json of the digest: the bytes must decompress to the same content.
VerifyExisting(w) ==
  /\ At(w, "verifying")
  /\ StoreGoes(w, IF entry.content = "whole" THEN "answering" ELSE "away")
  /\ DirectoryUnchanged

\* A name of its own per call, so writers never share a temporary.
CreateTemporary(w) ==
  /\ At(w, "creating")
  /\ StoreGoes(w, "writing")
  /\ DirectoryUnchanged

\* write, flush and fsync of the temporary.
WriteTemporary(w) ==
  /\ At(w, "writing")
  /\ store' = [store EXCEPT ![w].at = "replacing", ![w].synced = TRUE]
  /\ DirectoryUnchanged

ReplaceDestination(w) ==
  /\ At(w, "replacing")
  /\ entry' = [content |-> "whole", synced |-> store[w].synced]
  /\ StoreGoes(w, "syncing")
  /\ UNCHANGED <<onDisk, rows>>

\* _fsync_root, on a file system that supports it.
FsyncRoot(w) ==
  /\ At(w, "syncing")
  /\ onDisk' = entry.content
  /\ store' = [store EXCEPT ![w].at = "answering", ![w].placed = TRUE]
  /\ UNCHANGED <<entry, rows>>

\* Any step may raise, and the temporary is unlinked once it has its name.
PutRaises(w) ==
  /\ ~At(w, "away") /\ ~At(w, "answering")
  /\ StoreGoes(w, "away")
  /\ DirectoryUnchanged

\* The caller commits the row that names the digest, or never does.
CommitRow(w) ==
  /\ At(w, "answering")
  /\ rows' = rows \cup {IF store[w].placed THEN "placed" ELSE "found"}
  /\ StoreGoes(w, "away")
  /\ UNCHANGED <<entry, onDisk>>

ProcessDies(w) ==
  /\ ~At(w, "away")
  /\ StoreGoes(w, "away")
  /\ DirectoryUnchanged

\* The kernel may also write an entry back at any time before it fails.
PowerFails ==
  /\ store' = [w \in Writers |-> Call("away")]
  /\ \E kept \in {entry.content, onDisk} :
       LET found == IF kept = "whole" /\ ~entry.synced THEN "torn" ELSE kept
       IN entry' = [content |-> found, synced |-> TRUE] /\ onDisk' = found
  /\ UNCHANGED rows

ArtifactNext ==
  \/ \E w \in Writers :
       \/ PutJson(w) \/ Exists(w) \/ VerifyExisting(w)
       \/ CreateTemporary(w) \/ WriteTemporary(w) \/ ReplaceDestination(w) \/ FsyncRoot(w)
       \/ PutRaises(w) \/ CommitRow(w) \/ ProcessDies(w)
  \/ PowerFails

ArtifactSpec == ArtifactInit /\ [][ArtifactNext]_artifactVars
-----------------------------------------------------------------------------
\* A row committed by a writer that placed the file itself names an artifact
\* that survives power failures, and no row ever names a torn one: content
\* found in place is verified.  (A writer that found the file of another one
\* answers without syncing the directory: its row may outlive the file.)
CommittedArtifactSurvives ==
  /\ "placed" \in rows => entry.content = "whole" /\ onDisk = "whole"
  /\ rows # {} => entry.content # "torn"
=============================================================================
