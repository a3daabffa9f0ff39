----------------------------- MODULE MediaStore -----------------------------
(***************************************************************************)
(* Concurrent media downloads into one directory: download_to_file         *)
(* (crates/media/src/download.rs) and the sweep of old files (cleanup.rs). *)
(*                                                                         *)
(* The path of a download is a hash of its URL, and its partial file is    *)
(* named after the path: two downloads of one URL use the same names.  So  *)
(* the model has inodes: a name is a link to an inode, an open file stays  *)
(* open when its name is taken away, and File::create truncates the inode  *)
(* that another download may be writing.  A body is a run of chunks, and a *)
(* chunk is written at the writer's own offset.  One action is one await.  *)
(***************************************************************************)
EXTENDS Naturals, FiniteSets

CONSTANTS
  Downloads,      \* calls of download_to_file in flight
  Paths,          \* media_path of a URL
  Inodes,
  Chunks,         \* the chunks of a body; one more is refused
  Cap             \* MEDIA_DIR_CAP_BYTES - MIN_FREE_BYTES, in chunks

NoFile == 0
ASSUME MediaAssumption ==
  /\ Chunks \in Nat \ {0} /\ Cap \in Nat /\ NoFile \notin Inodes /\ Inodes # {} /\ Paths # {}
  /\ Downloads # {} /\ IsFiniteSet(Downloads)

VARIABLES
  part, dest,     \* the inode each name is linked to
  content,        \* the chunks in an inode
  stage, path, file, written,
  raced           \* history: two downloads of a path have overlapped

dirVars == <<part, dest, content>>
callVars == <<stage, path, file, written>>
mediaVars == <<dirVars, callVars, raced>>

Open == {"stream", "rename", "remove"}
Stage == {"idle", "send"} \cup Open
SomePath == CHOOSE p \in Paths : TRUE

Whole == 1..Chunks
Opened(i) == \E d \in Downloads : stage[d] = "stream" /\ file[d] = i
Linked(i) == \E p \in Paths : i \in {part[p], dest[p]}
Busy(p) == \E d \in Downloads : stage[d] \in Open /\ path[d] = p

Free(i) == ~Opened(i) /\ ~Linked(i)
NewInode == CHOOSE i \in Inodes : Free(i)

(* dir_size: the length of every file with a name, which is that of its    *)
(* last chunk, whatever is missing before it.  (No file has two names:     *)
(* NamesNeverShared in MediaStoreProofs.)                                  *)
Stored == {c \in Inodes \X Whole : Linked(c[1]) /\ \E n \in content[c[1]] : c[2] <= n}
DirSize == Cardinality(Stored)

(* The file is closed; a call that returns forgets its path. *)
Close(d, to) ==
  /\ stage' = [stage EXCEPT ![d] = to]
  /\ path' = IF to = "idle" THEN [path EXCEPT ![d] = SomePath] ELSE path
  /\ file' = [file EXCEPT ![d] = NoFile]
  /\ written' = [written EXCEPT ![d] = 0]

(* An inode without a name that no one has open is free again, and empty. *)
Reclaim ==
  content' = [i \in Inodes |-> IF Linked(i)' \/ Opened(i)' THEN content[i] ELSE {}]

-----------------------------------------------------------------------------
MediaInit ==
  /\ part = [p \in Paths |-> NoFile] /\ dest = [p \in Paths |-> NoFile]
  /\ content = [i \in Inodes |-> {}]
  /\ stage = [d \in Downloads |-> "idle"] /\ path = [d \in Downloads |-> SomePath]
  /\ file = [d \in Downloads |-> NoFile] /\ written = [d \in Downloads |-> 0]
  /\ raced = [p \in Paths |-> FALSE]

(* Mutant: the quota asks for room for what is there, not for the body. *)
AskForNothing(d, p) ==
  /\ stage[d] = "idle" /\ DirSize <= Cap
  /\ stage' = [stage EXCEPT ![d] = "send"] /\ path' = [path EXCEPT ![d] = p]
  /\ UNCHANGED <<dirVars, file, written, raced>>

(* check_quota admits the call, and the request is sent. *)
Ask(d, p) ==
  /\ stage[d] = "idle" /\ DirSize + Chunks <= Cap
  /\ stage' = [stage EXCEPT ![d] = "send"] /\ path' = [path EXCEPT ![d] = p]
  /\ UNCHANGED <<dirVars, file, written, raced>>

(* No answer, an error status, or a Content-Length over the limit. *)
Refused(d) ==
  /\ stage[d] = "send"
  /\ Close(d, "idle")
  /\ UNCHANGED <<dirVars, raced>>

(* File::create of the partial file: a new inode, or the one it finds,     *)
(* emptied.                                                                *)
Create(d) ==
  /\ stage[d] = "send"
  /\ part[path[d]] = NoFile => \E i \in Inodes : Free(i)
  /\ LET i == IF part[path[d]] = NoFile THEN NewInode ELSE part[path[d]] IN
       /\ part' = [part EXCEPT ![path[d]] = i]
       /\ content' = [content EXCEPT ![i] = {}]
       /\ file' = [file EXCEPT ![d] = i]
  /\ stage' = [stage EXCEPT ![d] = "stream"]
  /\ raced' = [raced EXCEPT ![path[d]] = @ \/ Busy(path[d])]
  /\ UNCHANGED <<dest, path, written>>

Chunk(d) ==
  /\ stage[d] = "stream" /\ written[d] < Chunks
  /\ written' = [written EXCEPT ![d] = @ + 1]
  /\ content' = [content EXCEPT ![file[d]] = @ \cup {written[d] + 1}]
  /\ UNCHANGED <<part, dest, stage, path, file, raced>>

(* Mutant: an error of the stream is taken for its end. *)
FinishAnyhow(d) ==
  /\ stage[d] = "stream"
  /\ Close(d, "rename")
  /\ UNCHANGED <<part, dest, raced>> /\ Reclaim

(* The body is complete. *)
Finish(d) ==
  /\ stage[d] = "stream" /\ written[d] = Chunks
  /\ Close(d, "rename")
  /\ UNCHANGED <<part, dest, raced>> /\ Reclaim

(* A chunk fails, or is one too many. *)
Fail(d) ==
  /\ stage[d] = "stream"
  /\ Close(d, "remove")
  /\ UNCHANGED <<part, dest, raced>> /\ Reclaim

(* The partial file, whoever's it is by now, takes the final name; without *)
(* one, the call fails.                                                    *)
Rename(d) ==
  /\ stage[d] = "rename"
  /\ IF part[path[d]] = NoFile THEN UNCHANGED <<part, dest>>
     ELSE /\ dest' = [dest EXCEPT ![path[d]] = part[path[d]]]
          /\ part' = [part EXCEPT ![path[d]] = NoFile]
  /\ Close(d, "idle") /\ Reclaim
  /\ UNCHANGED raced

(* remove_file after an error: again whoever's it is. *)
RemovePart(d) ==
  /\ stage[d] = "remove"
  /\ part' = [part EXCEPT ![path[d]] = NoFile]
  /\ Close(d, "idle")
  /\ UNCHANGED <<dest, raced>> /\ Reclaim

(* The deadline of the route drops the call at an await: nothing is        *)
(* removed.  (A rename or remove already handed to the file system is      *)
(* carried out: that is Rename or RemovePart.)                             *)
Dropped(d) ==
  /\ stage[d] # "idle"
  /\ Close(d, "idle")
  /\ UNCHANGED <<part, dest, raced>> /\ Reclaim

(* cleanup_old_files: files that nobody has touched for a day. *)
CleanUp ==
  /\ \E p \in Paths :
       /\ ~Busy(p)
       /\ \/ part[p] # NoFile /\ part' = [part EXCEPT ![p] = NoFile] /\ UNCHANGED dest
          \/ dest[p] # NoFile /\ dest' = [dest EXCEPT ![p] = NoFile] /\ UNCHANGED part
  /\ UNCHANGED <<callVars, raced>> /\ Reclaim

Stream(d) == Chunk(d) \/ Finish(d) \/ Fail(d)
MediaNext ==
  \/ \E d \in Downloads :
       \/ \E p \in Paths : Ask(d, p)
       \/ Refused(d) \/ Create(d) \/ Stream(d) \/ Rename(d) \/ RemovePart(d) \/ Dropped(d)
  \/ CleanUp

MediaSpec == MediaInit /\ [][MediaNext]_mediaVars

-----------------------------------------------------------------------------
MediaTypeOK ==
  /\ part \in [Paths -> Inodes \cup {NoFile}] /\ dest \in [Paths -> Inodes \cup {NoFile}]
  /\ content \in [Inodes -> SUBSET Whole]
  /\ stage \in [Downloads -> Stage] /\ path \in [Downloads -> Paths]
  /\ file \in [Downloads -> Inodes \cup {NoFile}] /\ written \in [Downloads -> 0..Chunks]
  /\ raced \in [Paths -> BOOLEAN]

(* A file under its final name is whole, whatever failed, was dropped or   *)
(* left a partial file before, unless two downloads of it have overlapped. *)
WholeUnlessRaced ==
  \A p \in Paths : dest[p] # NoFile /\ ~raced[p] => content[dest[p]] = Whole

(* A file under its final name is a finished download. *)
WholeFiles == \A p \in Paths : dest[p] # NoFile => content[dest[p]] = Whole

(* The quota is asked for before the bytes are written: of the calls in    *)
(* flight each but one may exceed it, by one body.                         *)
QuotaOvershoot == DirSize <= Cap + (Cardinality(Downloads) - 1) * Chunks
=============================================================================
