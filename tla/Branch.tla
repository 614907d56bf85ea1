------------------------------- MODULE Branch -------------------------------
(***************************************************************************)
(* org.pdk.files.Branch with its clients FtpSession and DataOutputStream:   *)
(* files are uploaded into a branch of the tree, which a timer merges into  *)
(* master 300 ms after the last byte.                                       *)
(*                                                                          *)
(* Every session has a branch, a thread that uploads one file after the     *)
(* other, and a timer whose thread merges.  Nothing excludes one from the   *)
(* other; a step here ends where the next one reads or writes root, timer   *)
(* or the tree again.  Time is left out: a scheduled timer may fire at any  *)
(* moment, but a merge ends within the 300 ms before the next of its        *)
(* session.  A value stands for the bytes of one upload and says for which  *)
(* path and from which session they came.                                   *)
(***************************************************************************)
EXTENDS Files

CONSTANTS Session,     \* the FTP sessions
          Path,        \* the files there are in master: paths of two names
          Stored,      \* the tree there is at first
          Plan         \* bounds of the model: what every session uploads,
                       \* the writes but the last, the transfers the clients
                       \* break off, the disk managers opened meanwhile

ASSUME BranchAssumption ==
    /\ \A path \in Path : path = <<path[1], path[2]>>
    /\ Plan \subseteq [uploads : [Session -> Seq(Path)], writes : Nat, aborts : Nat, starts : Nat]
    /\ Null \notin Nat \union [path : Path, by : Session, n : Nat]
    /\ Null \notin {"returnRoot", "write", "put"}

Former(path) == [path |-> path, by |-> Null, n |-> 0]

(* Master, node 2, holds directories with the files; node 1 is the          *)
(* directory Branch.                                                        *)
Locals(t, n) == {t[n].locals[i] : i \in DOMAIN t[n].locals}

ASSUME StoredAssumption ==
    /\ IsFiniteSet(DOMAIN Stored) /\ DOMAIN Stored = 0..(Cardinality(DOMAIN Stored) - 1)
    /\ DOMAIN Stored =
          {0, 1, 2} \union Locals(Stored, 2) \union UNION {Locals(Stored, d) : d \in Locals(Stored, 2)}
    /\ \A n \in DOMAIN Stored :
          /\ Stored[n] = [title |-> Stored[n].title, parent |-> Stored[n].parent,
                          locals |-> Stored[n].locals, value |-> Stored[n].value]
          /\ Stored[n].locals \in Seq(DOMAIN Stored)
          /\ \A m \in Locals(Stored, n) : Stored[m].parent = n
          /\ \A i, j \in DOMAIN Stored[n].locals :
                Stored[Stored[n].locals[i]].title = Stored[Stored[n].locals[j]].title => i = j
    /\ Stored[0].parent = Null /\ Stored[0].locals = <<1, 2>>
    /\ Stored[1].title = "Branch" /\ Stored[1].locals = <<>> /\ Stored[2].title = "master"
    /\ \A d \in Locals(Stored, 2) : \A f \in Locals(Stored, d) :
          LET path == <<Stored[d].title, Stored[f].title>>
          IN  path \in Path /\ Stored[f].value = Former(path) /\ Stored[f].locals = <<>>
    /\ \A path \in Path : getNodeIfExist(Stored, 2, path) # Null

VARIABLES tree,        \* all nodes
          master,      \* Instance.master: the cached node, or null
          root,        \* Branch.root of every session, or null
          timer,       \* the state of the object in Branch.timer
          upload,      \* the uploading thread: pc and locals
          merge,       \* the timer's thread: pc and locals
          temps,       \* the sessions whose temporary file exists
          closed,      \* the values that were put, in that order
          rough,       \* whether a merge met an upload, or not just one file
          left         \* what is left of the plan

vars == <<tree, master, root, timer, upload, merge, temps, closed, rough, left>>

-----------------------------------------------------------------------------
At(s, pc)      == upload[s].pc = pc
Go(s, pc)      == upload' = [upload EXCEPT ![s].pc = pc]
MergeAt(s, pc) == merge[s].pc = pc
MergeGoes(s, pc) == merge' = [merge EXCEPT ![s].pc = pc]

(* An upload ends, be it with an exception.                                 *)
Over(s) == upload' = [upload EXCEPT ![s] = [@ EXCEPT !.pc = "idle", !.then = Null,
                                                     !.root = Null, !.node = Null]]

Upload(s) == [path |-> upload[s].path, by |-> s, n |-> upload[s].n]

(* getMaster                                                                *)
Master == IF master # Null THEN master ELSE Local(tree, 0, "master")

(* The bytes at a path of master, or null.                                  *)
Content(path) ==
    LET file == getNodeIfExist(tree, Local(tree, 0, "master"), path)
    IN  IF file = Null THEN Null ELSE tree[file].value

Init ==
    /\ tree = Stored
    /\ master = 2
    /\ root = [s \in Session |-> Null]
    /\ timer = [s \in Session |-> "new"]
    /\ upload = [s \in Session |-> [pc |-> "idle", then |-> Null, n |-> 0, path |-> Null,
                                    root |-> Null, node |-> Null]]
    /\ merge = [s \in Session |-> [pc |-> "idle", to |-> Null, path |-> Null, from |-> Null]]
    /\ temps = {}
    /\ closed = <<>>
    /\ rough = FALSE
    /\ left \in Plan

-----------------------------------------------------------------------------
(* A mutant of NewTimer: the timer is cancelled and not scheduled again.    *)
NewTimerNone(s) ==
    /\ At(s, "newTimer")
    /\ timer' = [timer EXCEPT ![s] = "cancelled"]
    /\ Go(s, upload[s].then)
    /\ UNCHANGED <<tree, master, root, merge, temps, closed, rough, left>>

(* updateTimer: cancel, new Timer, schedule.  A merge may cancel the new    *)
(* timer before it is scheduled; schedule then throws, and the call that    *)
(* updated the timer fails.                                                 *)
NewTimer(s) ==
    /\ At(s, "newTimer")
    /\ timer' = [timer EXCEPT ![s] = "new"]
    /\ Go(s, "schedule")
    /\ UNCHANGED <<tree, master, root, merge, temps, closed, rough, left>>

Schedule(s) ==
    /\ At(s, "schedule") /\ timer[s] # "cancelled"
    /\ timer' = [timer EXCEPT ![s] = "scheduled"]
    /\ Go(s, upload[s].then)
    /\ UNCHANGED <<tree, master, root, merge, temps, closed, rough, left>>

ScheduleThrows(s) ==
    /\ At(s, "schedule") /\ timer[s] = "cancelled"
    /\ Over(s)
    /\ UNCHANGED <<tree, master, root, timer, merge, temps, closed, rough, left>>

-----------------------------------------------------------------------------
(* An upload: STOR finds the file in master and calls writeFile, which      *)
(* makes the same path in the branch.                                       *)
Begin(s) ==
    /\ At(s, "idle") /\ left.uploads[s] # <<>>
    /\ left' = [left EXCEPT !.uploads[s] = Tail(@)]
    /\ LET path == Head(left.uploads[s])
       IN  /\ getNodeIfExist(tree, Master, path) # Null
           /\ upload' = [upload EXCEPT ![s].pc = "getRoot", ![s].path = path, ![s].n = @ + 1]
    /\ rough' = (rough \/ ~MergeAt(s, "idle"))
    /\ UNCHANGED <<tree, master, root, timer, merge, temps, closed>>

(* Branch.getRoot makes a root where there is none,                         *)
GetRoot(s) ==
    /\ At(s, "getRoot")
    /\ IF root[s] # Null
       THEN Go(s, "returnRoot") /\ UNCHANGED <<tree, root>>
       ELSE /\ tree' = AddLocal(tree, 1, NewNode(tree), Null)
            /\ root' = [root EXCEPT ![s] = NewNode(tree)]
            /\ upload' = [upload EXCEPT ![s].pc = "newTimer", ![s].then = "returnRoot"]
    /\ UNCHANGED <<master, timer, merge, temps, closed, rough, left>>

(* A mutant of ReturnRoot: a root that is null by now is returned.          *)
ReturnRootNull(s) ==
    /\ At(s, "returnRoot")
    /\ upload' = [upload EXCEPT ![s].pc = "getNode", ![s].root = root[s]]
    /\ UNCHANGED <<tree, master, root, timer, merge, temps, closed, rough, left>>

(* and reads root again to return it: null, if a merge came between, for    *)
(* which getNode throws.                                                    *)
ReturnRoot(s) ==
    /\ At(s, "returnRoot")
    /\ IF root[s] = Null THEN Over(s)
       ELSE upload' = [upload EXCEPT ![s].pc = "getNode", ![s].root = root[s]]
    /\ UNCHANGED <<tree, master, root, timer, merge, temps, closed, rough, left>>

(* Files.getNode and new DataOutputStream, with its temporary file.         *)
GetNode(s) ==
    /\ At(s, "getNode")
    /\ LET at == getNode(tree, upload[s].root, upload[s].path)
       IN  /\ tree' = at.tree
           /\ upload' = [upload EXCEPT ![s].pc = "write", ![s].root = Null,
                                       ![s].node = at.node]
    /\ temps' = temps \union {s}
    /\ UNCHANGED <<master, root, timer, merge, closed, rough, left>>

(* write puts bytes into the temporary file and updates the timer;          *)
Write(s) ==
    /\ At(s, "write") /\ left.writes > 0
    /\ left' = [left EXCEPT !.writes = @ - 1]
    /\ upload' = [upload EXCEPT ![s].pc = "newTimer", ![s].then = "write"]
    /\ UNCHANGED <<tree, master, root, timer, merge, temps, closed, rough>>

(* close, after the last write, updates it once more and puts the file.     *)
Close(s) ==
    /\ At(s, "write")
    /\ upload' = [upload EXCEPT ![s].pc = "newTimer", ![s].then = "put"]
    /\ UNCHANGED <<tree, master, root, timer, merge, temps, closed, rough, left>>

(* The connection breaks: minimalftp does not close the stream then.        *)
Abort(s) ==
    /\ At(s, "write") /\ left.aborts > 0
    /\ left' = [left EXCEPT !.aborts = @ - 1]
    /\ rough' = TRUE
    /\ Over(s)
    /\ UNCHANGED <<tree, master, root, timer, merge, temps, closed>>

(* Files.putFile: the value is set on the node that was found at first,     *)
(* wherever that node is by now.                                            *)
Put(s) ==
    /\ At(s, "put") /\ s \in temps
    /\ tree' = [tree EXCEPT ![upload[s].node].value = Upload(s)]
    /\ closed' = Append(closed, Upload(s))
    /\ temps' = temps \ {s}
    /\ Over(s)
    /\ UNCHANGED <<master, root, timer, merge, rough, left>>

PutThrows(s) ==
    /\ At(s, "put") /\ s \notin temps
    /\ Over(s)
    /\ UNCHANGED <<tree, master, root, timer, merge, temps, closed, rough, left>>

(* Opening another disk manager deletes every temporary file there is       *)
(* (DiskManager.createFtpTempDir).                                          *)
CreateFtpTempDir ==
    /\ temps # {} /\ left.starts > 0
    /\ left' = [left EXCEPT !.starts = @ - 1]
    /\ temps' = {}
    /\ rough' = TRUE
    /\ UNCHANGED <<tree, master, root, timer, upload, merge, closed>>

-----------------------------------------------------------------------------
(* mergeWithMaster, in the timer's thread                                   *)

(* The files of a branch: its nodes without locals.                         *)
FilesOf(s) ==
    IF root[s] = Null THEN {}
    ELSE {path \in Path : getNodeIfExist(tree, root[s], path) # Null}

Fire(s) ==
    /\ timer[s] = "scheduled" /\ MergeAt(s, "idle")
    /\ timer' = [timer EXCEPT ![s] = "fired"]
    /\ MergeGoes(s, "cancel")
    /\ rough' = (rough \/ ~At(s, "idle") \/ Cardinality(FilesOf(s)) # 1)
    /\ UNCHANGED <<tree, master, root, upload, temps, closed, left>>

(* timer.cancel(): of the timer there is now, which may be a later one.     *)
Cancel(s) ==
    /\ MergeAt(s, "cancel")
    /\ timer' = [timer EXCEPT ![s] = "cancelled"]
    /\ MergeGoes(s, "find")
    /\ UNCHANGED <<tree, master, root, upload, temps, closed, rough, left>>

(* A mutant of findPackage: it stops above the only local.                  *)
findPackageAbove(node) ==
    LET Package[n \in DOMAIN tree] ==
            IF Len(tree[n].locals) = 1 /\ Len(tree[tree[n].locals[1]].locals) = 1
            THEN Package[tree[n].locals[1]] ELSE n
    IN  Package[node]

(* Down to the first node that has not exactly one local.                   *)
findPackage(node) ==
    LET Package[n \in DOMAIN tree] ==
            IF Len(tree[n].locals) = 1 THEN Package[tree[n].locals[1]] ELSE n
    IN  Package[node]

Find(s) ==
    /\ MergeAt(s, "find")
    /\ merge' = [merge EXCEPT ![s] =
           IF root[s] = Null THEN [@ EXCEPT !.pc = "idle"]
           ELSE LET package == findPackage(root[s])
                IN  [@ EXCEPT !.pc = "locate", !.to = package,
                              !.path = getPath(tree, root[s], package)]]
    /\ UNCHANGED <<tree, master, root, timer, upload, temps, closed, rough, left>>

(* masterPackage = Files.getNode(branchPackagePath)                         *)
Locate(s) ==
    /\ MergeAt(s, "locate")
    /\ LET at == getNode(tree, Master, merge[s].path)
       IN  /\ tree' = at.tree
           /\ merge' = [merge EXCEPT ![s].pc = "replace", ![s].from = at.node]
    /\ master' = Master
    /\ UNCHANGED <<root, timer, upload, temps, closed, rough, left>>

MergeEnds(s) ==
    merge' = [merge EXCEPT ![s] = [pc |-> "idle", to |-> Null, path |-> Null, from |-> Null]]

(* Files.replace, and removeMaster if it was master that was replaced.      *)
Replace(s) ==
    /\ MergeAt(s, "replace") /\ CanReplace(tree, merge[s].from)
    /\ tree' = replace(tree, merge[s].from, merge[s].to)
    /\ master' = IF merge[s].from = master THEN Null ELSE master
    /\ MergeGoes(s, "finish")
    /\ UNCHANGED <<root, timer, upload, temps, closed, rough, left>>

(* The exception ends the timer's thread before root is set to null.        *)
ReplaceThrows(s) ==
    /\ MergeAt(s, "replace") /\ ~CanReplace(tree, merge[s].from)
    /\ MergeEnds(s)
    /\ rough' = TRUE
    /\ UNCHANGED <<tree, master, root, timer, upload, temps, closed, left>>

(* A mutant of Finish: the branch keeps its root.                           *)
FinishKeeps(s) ==
    /\ MergeAt(s, "finish")
    /\ MergeEnds(s)
    /\ UNCHANGED <<tree, master, root, timer, upload, temps, closed, rough, left>>

Finish(s) ==
    /\ MergeAt(s, "finish")
    /\ root' = [root EXCEPT ![s] = Null]
    /\ MergeEnds(s)
    /\ UNCHANGED <<tree, master, timer, upload, temps, closed, rough, left>>

-----------------------------------------------------------------------------
Transfer(s) ==
    \/ NewTimer(s) \/ Schedule(s) \/ ScheduleThrows(s)
    \/ GetRoot(s) \/ ReturnRoot(s) \/ GetNode(s) \/ Put(s) \/ PutThrows(s)

Merge(s) ==
    Cancel(s) \/ Find(s) \/ Locate(s) \/ Replace(s) \/ ReplaceThrows(s) \/ Finish(s)

Next ==
    \/ \E s \in Session :
          \/ Begin(s) \/ Transfer(s) \/ Write(s) \/ Close(s) \/ Abort(s)
          \/ Fire(s) \/ Merge(s)
    \/ CreateFtpTempDir

Spec == Init /\ [][Next]_vars

-----------------------------------------------------------------------------
(* Nodes are linked to nodes, and every pc has the locals it needs.         *)
TypeOK ==
    /\ \A n \in DOMAIN tree :
          /\ tree[n].parent \in DOMAIN tree \union {Null}
          /\ \A i \in DOMAIN tree[n].locals : tree[n].locals[i] \in DOMAIN tree
    /\ master \in DOMAIN tree \union {Null}
    /\ root \in [Session -> DOMAIN tree \union {Null}]
    /\ timer \in [Session -> {"new", "scheduled", "cancelled", "fired"}]
    /\ \A s \in Session :
          /\ At(s, "getNode") => upload[s].root # Null
          /\ upload[s].pc \in {"write", "put"} => upload[s].node # Null
          /\ MergeAt(s, "replace") => merge[s].from # Null /\ merge[s].to # Null
    /\ temps \subseteq Session

(* What master answers for a path was uploaded for that path, or was there  *)
(* before, however uploads and merges of all sessions meet (replace keeps   *)
(* the title of what it replaces, and close puts into a node it found long  *)
(* ago).                                                                    *)
RightPlace ==
    \A path \in Path :
       LET content == Content(path)
       IN  content # Null => content.path = path

(* A node below master is found again by the path getPath gives it: the     *)
(* parents of all sessions' merged nodes stay those that list them, as long *)
(* as every merge took one file and met no upload.                          *)
PathsLead ==
    ~rough => LET top == Local(tree, 0, "master")
              IN  \A path \in Path :
                     LET file == getNodeIfExist(tree, top, path)
                     IN  file # Null /\ getPath(tree, top, file) = path

(* Such a merge changes the one file and no other one of master             *)
(* (findPackage goes down to the file).                                     *)
ChangesOneFile ==
    [][~rough' /\ tree' # tree =>
          Cardinality({path \in Path : Content(path)' # Content(path)}) <= 1]_vars

(* And an upload that was closed reaches master: no timer is cancelled that  *)
(* nothing restarts (updateTimer).  What is there instead is at most a      *)
(* later upload of the same session to the path or one of another session,  *)
(* for the merges of two sessions are in no order.                          *)
Quiet(s) == At(s, "idle") /\ MergeAt(s, "idle") /\ timer[s] # "scheduled"

Arrived(i) ==
    LET content == Content(closed[i].path)
    IN  \E j \in DOMAIN closed :
           closed[j] = content /\ (closed[j].by = closed[i].by => j >= i)

ClosedArrives ==
    \/ rough
    \/ \A i \in DOMAIN closed : Quiet(closed[i].by) => Arrived(i)

(* When nothing goes on in a session any more, its branch was merged: a     *)
(* root that stays would take its files to master again with the next       *)
(* upload.  That is so however writes restart the timer and whatever the    *)
(* clients break off; only a merge that failed, or one that met an upload   *)
(* of its session, leaves a root.                                           *)
NoRootStays == \A s \in Session : Quiet(s) /\ root[s] # Null => rough
=============================================================================
