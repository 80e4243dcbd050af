------------------------------ MODULE FileTree ------------------------------
(***************************************************************************)
(* The tree of cached files (kernel/fs/file.c), the directory handles      *)
(* (kernel/lib/handle.c) and the four system calls that use them:          *)
(* SysOpenDir, SysReadDir, SysGetProcDir and SysSetProcDir                 *)
(* (kernel/user/syscalls.c).                                               *)
(*                                                                         *)
(* One tree serves every process, nothing locks it, and the clock may take *)
(* the processor from a process in the middle of a call: the steps below   *)
(* are cut where a call reads or writes what another one may change.  The  *)
(* disk does not change and reading it may fail.                           *)
(***************************************************************************)
EXTENDS Integers, Sequences, FiniteSets, Functions

CONSTANTS
    Procs,          \* the processes
    Entries,        \* the disk: inode number of a directory -> its entries,
                    \* without "." and ".."; other inodes are plain files
    RootInode,      \* EXT2_ROOT_INODE_NUMBER
    Paths,          \* what each process gives to SysOpenDir
    DiskOutcomes,   \* how reading the disk may end: TRUE when it succeeds
    MaxCalls,       \* bound on the calls of each kind of each process
    MaxTotal        \* bound on all the calls of each process

NULL == 0           \* the null pointer
Root == 1           \* gRootFile
NoHandle == 2       \* a handle that CreateDirHandle never gives
CountStep == 4      \* s_HandleCount is a pointer to int: ++ adds four

Kinds == {"open", "again", "get", "set", "read"}

IsDir(inum) == inum \in DOMAIN Entries
EntriesOf(inum) == IF IsDir(inum) THEN Entries[inum] ELSE <<>>
DiskEntries(inum) == {EntriesOf(inum)[i] : i \in DOMAIN EntriesOf(inum)}
Inodes == {RootInode} \cup UNION {{e.inum : e \in DiskEntries(d)} : d \in DOMAIN Entries}
Names == {"/"} \cup UNION {{e.name : e \in DiskEntries(d)} : d \in DOMAIN Entries}

\* The root directory holds at least the program that KernelInit starts.
ASSUME EntriesAssumption ==
    /\ RootInode \in DOMAIN Entries /\ Entries[RootInode] # <<>>
    /\ \A d \in DOMAIN Entries :
           /\ Entries[d] \in Seq([name : STRING, inum : Nat])
           /\ \A i, j \in DOMAIN Entries[d] : Entries[d][i].name = Entries[d][j].name => i = j
\* A directory has one entry in one other directory, the root has none.
ASSUME DirectoriesAssumption ==
    /\ NULL \notin DOMAIN Entries
    /\ \A d \in DOMAIN Entries : \A e \in DiskEntries(d) :
           /\ e.name \notin {".", ".."} /\ e.inum # RootInode
           /\ IsDir(e.inum) => \A g \in DOMAIN Entries :
                 (\E h \in DiskEntries(g) : h.inum = e.inum) => g = d
ASSUME PathsAssumption ==
    \A p \in Procs : Paths[p] \subseteq [abs : BOOLEAN, comps : Seq(STRING), slash : BOOLEAN]
ASSUME DiskAssumption == DiskOutcomes \subseteq BOOLEAN
ASSUME MaxCallsAssumption ==
    MaxCalls \in [Procs -> [Kinds -> Nat]] /\ MaxTotal \in [Procs -> Nat]

VARIABLES
    file,               \* the File structures, a pointer is a place in it
    s_HandleCount,      \* the next handle
    currentDirectory,   \* of each process
    dirHandleList,      \* of each process
    call,               \* where each process is in its call, and its locals
    string,             \* the last path that each process gave: what it wrote, what
                        \* is there now, whether a call has answered -1 (history)
    calls,              \* calls made by each process
    browsed,            \* history: directories whose browsing has ended
    raced,              \* history: directories that two calls changed at once
    cleared,            \* history: files whose inode a second reader took away
    torn                \* history: s_HandleCount has lost an update

tree == <<file, browsed, raced, cleared>>
handles == <<s_HandleCount, dirHandleList, torn>>
local == <<string, currentDirectory>>
vars == <<file, s_HandleCount, currentDirectory, dirHandleList, call, string, calls,
          browsed, raced, cleared, torn>>

-----------------------------------------------------------------------------
(* The tree.                                                               *)

Pointers == 1..Len(file)

\* Mutant: the new file gets the number of its directory.
NewFileDirInum(dir, entry) ==
    [inum |-> file[dir].inum, name |-> entry.name, inode |-> FALSE, opened |-> FALSE,
     leaf |-> NULL, next |-> NULL, parent |-> dir]

\* A file of directory dir that has just been cached: its inode is not read
\* and it is not opened.
NewFile(dir, entry) ==
    [inum |-> entry.inum, name |-> entry.name, inode |-> FALSE, opened |-> FALSE,
     leaf |-> NULL, next |-> NULL, parent |-> dir]

\* The files of directory dir, along next.
Chain(dir) ==
    LET from[n \in 0..Len(file)] ==
            [f \in 0..Len(file) |->
                IF n = 0 \/ f = NULL THEN <<>> ELSE <<f>> \o from[n - 1][file[f].next]]
    IN  from[Len(file)][file[dir].leaf]

\* The first file of dir with that name, NULL when there is none.
IsCached(dir, name) ==
    LET chain == Chain(dir)
        at == {i \in DOMAIN chain : file[chain[i]].name = name}
    IN  IF at = {} THEN NULL ELSE chain[CHOOSE i \in at : \A j \in at : i <= j]

\* Mutant: the test of an inode that is not there is left out.
HasInodeAlways(f) == TRUE

\* file->inode != NULL
HasInode(f) == file[f].inode

NoPath == [abs |-> TRUE, comps |-> <<>>, slash |-> FALSE]
NoString == [wrote |-> NoPath, now |-> NoPath, refused |-> FALSE]

\* A call: f is the file at work, then says what follows OpenFile or
\* IsDirectory, back what follows Ext2ReadInode.
NoCall == [pc |-> "user", op |-> "none", path |-> NoPath, start |-> NULL, rest |-> <<>>,
           dir |-> NULL, i |-> 1, new |-> NULL, seen |-> NULL, count |-> 0,
           f |-> NULL, then |-> "none", back |-> "none"]

\* The boot: InitRoot browses the root directory, then KernelInit opens the
\* program, the root's first entry, and makes the root the directory of the
\* processes it creates.
Init ==
    LET n == Len(Entries[RootInode])
    IN  /\ file = <<[inum |-> RootInode, name |-> "/", inode |-> TRUE, opened |-> TRUE,
                     leaf |-> n + 1, next |-> NULL, parent |-> Root]>>
                  \o [i \in 1..n |->
                        [inum |-> Entries[RootInode][i].inum,
                         name |-> Entries[RootInode][i].name,
                         inode |-> i = 1, opened |-> i = 1, leaf |-> NULL,
                         next |-> IF i = 1 THEN NULL ELSE i, parent |-> Root]]
        /\ s_HandleCount = 1
        /\ currentDirectory = [p \in Procs |-> Root]
        /\ dirHandleList = [p \in Procs |-> <<>>]
        /\ call = [p \in Procs |-> NoCall]
        /\ calls = [p \in Procs |-> [k \in Kinds |-> 0]]
        /\ string = [p \in Procs |-> NoString]
        /\ browsed = {Root}
        /\ raced = {}
        /\ cleared = {}
        /\ torn = FALSE

-----------------------------------------------------------------------------
(* Calls begin and end.                                                    *)

Total(f) == FoldFunction(+, 0, f)
At(p, pc) == call[p].pc = pc
Goto(p, c) == call' = [call EXCEPT ![p] = c]
Goes(p, c) == Goto(p, c) /\ UNCHANGED local

Begin(p, kind, c) ==
    /\ At(p, "user")
    /\ calls[p][kind] < MaxCalls[p][kind]
    /\ Total(calls[p]) < MaxTotal[p]
    /\ calls' = [calls EXCEPT ![p][kind] = @ + 1]
    /\ Goto(p, c)

Return(p, ret) ==
    /\ Goto(p, NoCall)
    /\ string' = [string EXCEPT ![p].refused = @ \/ ret = -1]
    /\ UNCHANGED currentDirectory

\* Inside a call: OpenFile, IsDirectory, Ext2ReadInode, and the end of
\* CreateDirHandle or CreateFileHandle.
Opens(c, f, then) == [c EXCEPT !.pc = "open", !.f = f, !.then = then]
Asks(c, f, then) == [c EXCEPT !.pc = "isdir", !.f = f, !.then = then]
Reads(c, back) == [c EXCEPT !.pc = "clear", !.back = back]
Creates(c, op) ==
    [c EXCEPT !.pc = "create", !.op = op, !.dir = c.f, !.i = 1, !.f = NULL, !.then = "none",
              !.back = "none"]

StartOf(p, path) == IF path.abs THEN Root ELSE currentDirectory[p]

\* The program writes a path, or gives the string of its last call again
\* although that call has left it cut.
Strings(p) ==
    {[wrote |-> path, now |-> path, refused |-> FALSE] : path \in Paths[p]}
        \cup {s \in {string[p]} : s.now # s.wrote}

SysOpenDir(p, s) ==
    LET start == StartOf(p, s.now)
        kind == IF s.now = s.wrote THEN "open" ELSE "again"
    IN  /\ Begin(p, kind, [NoCall EXCEPT !.pc = "walk", !.op = "open", !.path = s.now,
                                   !.start = start, !.rest = s.now.comps, !.dir = start])
        /\ string' = [string EXCEPT ![p] = s]
        /\ UNCHANGED <<tree, handles, currentDirectory>>

\* The directory handles of process p that are h; GetDirFromHandle takes the
\* oldest one.
PlacesOf(p, h) == {i \in DOMAIN dirHandleList[p] : dirHandleList[p][i].handle = h}
GetDirFromHandle(p, h) ==
    CHOOSE i \in PlacesOf(p, h) : \A j \in PlacesOf(p, h) : i <= j

-----------------------------------------------------------------------------
(* OpenFileFromName: one turn of its loop for each component of the path.   *)

\* The path is exhausted: it was "/", or its last component ended with '/'.
\* Then the pointer is still NULL and IsDirectory reads what happens to be at
\* the bottom of the memory.
WalkEnd(p) ==
    /\ At(p, "walk")
    /\ call[p].rest = <<>>
    /\ IF call[p].path = NoPath THEN Goes(p, Asks(call[p], Root, "opened"))
       ELSE \E ret \in {-2, -3} : Return(p, ret)
    /\ UNCHANGED <<tree, handles, calls>>

IsLast(p) == Len(call[p].rest) = 1 /\ ~call[p].path.slash

\* The last component: a cached file, to be opened if it was not.
WalkLast(p) ==
    LET f == IsCached(call[p].dir, Head(call[p].rest))
    IN  /\ At(p, "walk")
        /\ call[p].rest # <<>> /\ IsLast(p)
        /\ IF f = NULL THEN Return(p, -1)
           ELSE IF file[f].opened THEN Goes(p, Asks(call[p], f, "opened"))
           ELSE Goes(p, Opens(call[p], f, "last"))
        /\ UNCHANGED <<tree, handles, calls>>

\* path[indexSlash] = '\0': the string of the call ends after the component.
CutPath(p) ==
    LET c == call[p]
    IN  [c.path EXCEPT !.comps = SubSeq(@, 1, Len(c.path.comps) - Len(c.rest) + 1),
                       !.slash = FALSE]

\* Mutant: the slash is not put back.
PutBackNot(p) == CutPath(p)

\* path[indexSlash] = '/'
PutBack(p) == call[p].path

\* Mutant: ".." stays in the directory.
DotDotStays(dir) == dir

DotDot(dir) == file[dir].parent

WalkDots(p) ==
    /\ At(p, "walk")
    /\ call[p].rest # <<>> /\ ~IsLast(p)
    /\ Head(call[p].rest) \in {".", ".."}
    /\ Goto(p, [call[p] EXCEPT !.rest = Tail(@),
                               !.dir = IF Head(call[p].rest) = ".." THEN DotDot(@) ELSE @])
    /\ string' = [string EXCEPT ![p].now = PutBack(p)]
    /\ UNCHANGED <<tree, handles, currentDirectory, calls>>

\* A directory on the way, to be opened if it was not, and browsed.  When it
\* is not cached the call ends, and the string stays cut.
WalkDown(p) ==
    LET f == IsCached(call[p].dir, Head(call[p].rest))
        c == [call[p] EXCEPT !.dir = f]
    IN  /\ At(p, "walk")
        /\ call[p].rest # <<>> /\ ~IsLast(p)
        /\ Head(call[p].rest) \notin {".", ".."}
        /\ Goto(p, IF f = NULL THEN NoCall
                   ELSE IF file[f].opened THEN [c EXCEPT !.pc = "cache"]
                   ELSE Opens(c, f, "down"))
        /\ string' = [string EXCEPT ![p].now = CutPath(p), ![p].refused = @ \/ f = NULL]
        /\ UNCHANGED <<tree, handles, currentDirectory, calls>>

-----------------------------------------------------------------------------
(* OpenFile, IsDirectory and Ext2ReadInode work on the file they share with *)
(* every other call: test of its inode, write of NULL, write of the inode   *)
(* that was read, and use are separate steps.                               *)

\* Browsing has ended, well or not: the walk goes on behind the slash, or
\* SysSetProcDir takes the directory.
Over(p) ==
    LET c == call[p]
    IN  \/ /\ c.op = "open"
           /\ Goto(p, [c EXCEPT !.pc = "walk", !.rest = Tail(@), !.i = 1, !.f = NULL,
                                !.then = "none", !.back = "none"])
           /\ string' = [string EXCEPT ![p].now = PutBack(p)]
           /\ UNCHANGED currentDirectory
        \/ /\ c.op = "set"
           /\ Goto(p, NoCall)
           /\ currentDirectory' = [currentDirectory EXCEPT ![p] = c.dir]
           /\ UNCHANGED string

\* IsDirectory has answered.
Answer(p, is) ==
    LET c == call[p]
    IN  \/ c.then = "opened" /\ is /\ Goes(p, Asks(c, c.f, "dirhandle"))
        \/ c.then = "opened" /\ ~is /\ Return(p, -2)
        \/ c.then = "entry" /\ Goes(p, Asks(c, c.f, IF is THEN "dirhandle" ELSE "filehandle"))
        \/ c.then = "dirhandle" /\ is /\ Goes(p, Creates(c, c.op))
        \/ c.then = "filehandle" /\ ~is /\ Goes(p, Creates(c, "readfile"))
        \/ c.then = "dirhandle" /\ ~is /\ Return(p, -3)
        \/ c.then = "filehandle" /\ is /\ Return(p, -3)
        \/ c.then = "browse" /\ is /\ Goes(p, [c EXCEPT !.pc = "size"])
        \/ c.then = "browse" /\ ~is /\ Over(p)

\* OpenFile ends; BrowseAndCacheDirectory asks what it has opened.
Opened(p, ok) ==
    LET c == call[p]
    IN  \/ c.then = "last" /\ ok /\ Goes(p, Asks(c, c.f, "opened"))
        \/ c.then = "down" /\ ok /\ Goes(p, [c EXCEPT !.pc = "cache"])
        \/ c.then = "browse" /\ ok /\ Goes(p, Asks(c, c.f, "browse"))
        \/ c.then \in {"last", "down"} /\ ~ok /\ Return(p, -1)
        \/ c.then = "browse" /\ ~ok /\ Over(p)

\* OpenFile and IsDirectory begin with: file->inode == NULL ?
TestInode(p, pc, use) ==
    /\ At(p, pc)
    /\ Goes(p, IF HasInode(call[p].f) THEN [call[p] EXCEPT !.pc = use] ELSE Reads(call[p], use))
    /\ UNCHANGED <<tree, handles, calls>>

\* *inode = NULL of Ext2ReadInode.
ClearInode(p) ==
    LET f == call[p].f
    IN  /\ At(p, "clear")
        /\ file' = [file EXCEPT ![f].inode = FALSE]
        /\ cleared' = IF file[f].inode THEN cleared \cup {f} ELSE cleared
        /\ Goes(p, [call[p] EXCEPT !.pc = "inode"])
        /\ UNCHANGED <<handles, calls, browsed, raced>>

\* BrowseAndCacheDirectory has an inode: directory->opened == FALSE ?
Cached(c) == IF file[c.dir].opened THEN Asks(c, c.dir, "browse") ELSE Opens(c, c.dir, "browse")

\* *inode = localInode, or the disk cannot be read.
ReadInode(p, ok) ==
    LET c == call[p]
    IN  /\ At(p, "inode")
        /\ file' = [file EXCEPT ![c.f].inode = @ \/ ok]
        /\ \/ ok /\ c.back = "cache" /\ Goes(p, Cached(c))
           \/ ok /\ c.back # "cache" /\ Goes(p, [c EXCEPT !.pc = c.back, !.back = "none"])
           \/ ~ok /\ c.back = "content" /\ Opened(p, FALSE)
           \/ ~ok /\ c.back = "mode" /\ Answer(p, FALSE)
           \/ ~ok /\ c.back = "cache" /\ Over(p)
        /\ UNCHANGED <<handles, calls, browsed, raced, cleared>>

\* Ext2ReadFile refuses a NULL inode; the file is opened when its content is
\* there (the content of an opened file is read again, and the same).
ReadContent(p, ok) ==
    LET f == call[p].f
        done == ok /\ file[f].inode
    IN  /\ At(p, "content")
        /\ file' = [file EXCEPT ![f].opened = @ \/ done]
        /\ Opened(p, done)
        /\ UNCHANGED <<handles, calls, browsed, raced, cleared>>

\* file->inode->mode: anything when the inode is not there any more.
ReadMode(p) ==
    LET f == call[p].f
    IN  /\ At(p, "mode")
        /\ \E is \in IF file[f].inode THEN {IsDir(file[f].inum)} ELSE BOOLEAN : Answer(p, is)
        /\ UNCHANGED <<tree, handles, calls>>

-----------------------------------------------------------------------------
(* BrowseAndCacheDirectory: what it needs of the directory, then one turn   *)
(* of its loop for each entry, in the three steps between which another     *)
(* call may change the same list.                                           *)

BrowseStart(p) ==
    LET c == [call[p] EXCEPT !.f = call[p].dir]
    IN  /\ At(p, "cache")
        /\ Goes(p, IF HasInode(c.dir) THEN Cached(c) ELSE Reads(c, "cache"))
        /\ UNCHANGED <<tree, handles, calls>>

\* directory->inode->size.  Without an inode it is what lies at the bottom of
\* the memory, and the model does not follow the loop over it.
BrowseSize(p) ==
    /\ At(p, "size")
    /\ Goes(p, [call[p] EXCEPT !.pc = IF file[call[p].dir].inode THEN "browse" ELSE "wild",
                               !.i = 1, !.f = NULL, !.then = "none", !.back = "none"])
    /\ UNCHANGED <<tree, handles, calls>>

\* Mutant: the last entry of the directory is left out.
MoreEntriesButLast(c) == c.i < Len(EntriesOf(file[c.dir].inum))

MoreEntries(c) == c.i <= Len(EntriesOf(file[c.dir].inum))

BrowseCheck(p) ==
    LET c == call[p]
        entries == EntriesOf(file[c.dir].inum)
    IN  /\ At(p, "browse")
        /\ MoreEntries(c)
        /\ IF IsCached(c.dir, entries[c.i].name) # NULL
           THEN Goto(p, [c EXCEPT !.i = @ + 1]) /\ UNCHANGED file
           ELSE /\ file' = Append(file, NewFile(c.dir, entries[c.i]))
                /\ Goto(p, [c EXCEPT !.pc = "next", !.new = Len(file) + 1,
                                     !.seen = file[c.dir].leaf])
        /\ UNCHANGED <<handles, local, calls, browsed, raced, cleared>>

\* newCachedFile->next = directory->leaf
BrowseNext(p) ==
    LET c == call[p]
    IN  /\ At(p, "next")
        /\ file' = [file EXCEPT ![c.new].next = file[c.dir].leaf]
        /\ Goto(p, [c EXCEPT !.pc = "leaf"])
        /\ UNCHANGED <<handles, local, calls, browsed, raced, cleared>>

\* directory->leaf = newCachedFile.  The list was changed by somebody else
\* when it does not begin with what the check began with.
BrowseLeaf(p) ==
    LET c == call[p]
    IN  /\ At(p, "leaf")
        /\ file' = [file EXCEPT ![c.dir].leaf = c.new]
        /\ raced' = IF file[c.dir].leaf = c.seen THEN raced ELSE raced \cup {c.dir}
        /\ Goto(p, [c EXCEPT !.pc = "browse", !.i = @ + 1, !.new = NULL, !.seen = NULL])
        /\ UNCHANGED <<handles, local, calls, browsed, cleared>>

BrowseEnd(p) ==
    /\ At(p, "browse")
    /\ ~MoreEntries(call[p])
    /\ browsed' = browsed \cup {call[p].dir}
    /\ Over(p)
    /\ UNCHANGED <<handles, calls, file, raced, cleared>>

-----------------------------------------------------------------------------
(* Handles.                                                                *)

\* SysGetProcDir makes a handle of the current directory.
SysGetProcDir(p) ==
    /\ Begin(p, "get", Asks([NoCall EXCEPT !.op = "get"], currentDirectory[p], "dirhandle"))
    /\ UNCHANGED <<tree, handles, local>>

\* SysSetProcDir browses the directory of the handle, and takes it even when
\* it could not be browsed.
SysSetProcDir(p, h) ==
    /\ PlacesOf(p, h) # {}
    /\ Begin(p, "set", [NoCall EXCEPT !.pc = "cache", !.op = "set",
                               !.dir = dirHandleList[p][GetDirFromHandle(p, h)].dir])
    /\ UNCHANGED <<tree, handles, local>>

\* SysReadDir and SysSetProcDir refuse a handle that is not in the list.
UnknownHandle(p, h) ==
    /\ PlacesOf(p, h) = {}
    /\ Begin(p, "read", NoCall)
    /\ UNCHANGED <<tree, handles, local>>

\* Mutant: the cursor stops on the last file instead of running off the list.
CursorSticks(hd) ==
    IF hd.cursor = NULL THEN file[hd.dir].leaf
    ELSE IF file[hd.cursor].next = NULL THEN hd.cursor ELSE file[hd.cursor].next

\* The cursor goes to the next file; NULL, past the last one, starts again.
Cursor(hd) == IF hd.cursor = NULL THEN file[hd.dir].leaf ELSE file[hd.cursor].next

\* The handle after its cursor has moved, and what it has listed since the
\* cursor was at the beginning (whole: of a directory browsed by then).
Moved(hd) ==
    LET f == Cursor(hd)
    IN  [hd EXCEPT !.cursor = f,
                   !.whole = IF hd.cursor = NULL THEN hd.dir \in browsed ELSE @,
                   !.listed = IF f = NULL THEN (IF hd.cursor = NULL THEN <<>> ELSE @)
                              ELSE IF hd.cursor = NULL THEN <<file[f].name>>
                              ELSE Append(@, file[f].name)]

\* SysReadDir moves the cursor of the handle, then asks what the file is.
SysReadDir(p, h) ==
    LET i == GetDirFromHandle(p, h)
        f == Cursor(dirHandleList[p][i])
    IN  /\ PlacesOf(p, h) # {}
        /\ Begin(p, "read", IF f = NULL THEN NoCall
                            ELSE Asks([NoCall EXCEPT !.op = "read"], f, "entry"))
        /\ dirHandleList' = [dirHandleList EXCEPT ![p][i] = Moved(@)]
        /\ UNCHANGED <<tree, s_HandleCount, torn, local>>

\* localHandle->handle = s_HandleCount++ of CreateDirHandle and
\* CreateFileHandle, first the load ...
LoadCount(p) ==
    /\ At(p, "create")
    /\ Goto(p, [call[p] EXCEPT !.pc = "store", !.count = s_HandleCount])
    /\ UNCHANGED <<tree, handles, local, calls>>

\* Mutant: the count stays what it is.
NextCountSame(count) == count

NextCount(count) == count + CountStep

\* ... then the store.  A directory handle is pushed on the list of the
\* process; of a file handle only the number is, on a list nobody reads.
StoreCount(p) ==
    LET c == call[p]
        hd == [handle |-> c.count, dir |-> c.dir, cursor |-> NULL,
               listed |-> <<>>, whole |-> FALSE]
    IN  /\ At(p, "store")
        /\ s_HandleCount' = NextCount(c.count)
        /\ torn' = (torn \/ s_HandleCount # c.count)
        /\ dirHandleList' = IF c.op = "readfile" THEN dirHandleList
                            ELSE [dirHandleList EXCEPT ![p] = Append(@, hd)]
        /\ Return(p, IF c.op = "open" THEN 0 ELSE 1)
        /\ UNCHANGED <<tree, calls>>

-----------------------------------------------------------------------------
(* The specification.                                                      *)

HandleArgs(p) == {dirHandleList[p][i].handle : i \in DOMAIN dirHandleList[p]} \cup {NoHandle}

Starts(p) ==
    \/ \E s \in Strings(p) : SysOpenDir(p, s)
    \/ SysGetProcDir(p)
    \/ \E h \in HandleArgs(p) : SysReadDir(p, h) \/ UnknownHandle(p, h) \/ SysSetProcDir(p, h)

Walks(p) == WalkEnd(p) \/ WalkDots(p) \/ WalkLast(p) \/ WalkDown(p)

Opening(p) ==
    \/ TestInode(p, "open", "content")
    \/ TestInode(p, "isdir", "mode")
    \/ ClearInode(p)
    \/ \E ok \in DiskOutcomes : ReadInode(p, ok) \/ ReadContent(p, ok)
    \/ ReadMode(p)

Browses(p) ==
    \/ BrowseStart(p) \/ BrowseSize(p)
    \/ BrowseCheck(p) \/ BrowseNext(p) \/ BrowseLeaf(p) \/ BrowseEnd(p)

Makes(p) == LoadCount(p) \/ StoreCount(p)

Next == \E p \in Procs : Starts(p) \/ Walks(p) \/ Opening(p) \/ Browses(p) \/ Makes(p)

Spec == Init /\ [][Next]_vars

-----------------------------------------------------------------------------
(* Properties.                                                             *)

Pcs == {"user", "walk", "open", "isdir", "clear", "inode", "content", "mode", "cache", "size",
        "wild", "browse", "next", "leaf", "create", "store"}
FileRecords == [inum : Inodes, name : Names, inode : BOOLEAN, opened : BOOLEAN,
                leaf : {NULL} \cup Pointers, next : {NULL} \cup Pointers, parent : Pointers]

\* Every pointer is NULL where NULL may be, or that of a file of the tree;
\* the directory of a process and of a handle is always one.
TypeOK ==
    /\ file \in Seq(FileRecords)
    /\ s_HandleCount \in Nat
    /\ currentDirectory \in [Procs -> Pointers]
    /\ \A p \in Procs :
           /\ \A i \in DOMAIN dirHandleList[p] :
                 /\ dirHandleList[p][i].dir \in Pointers
                 /\ dirHandleList[p][i].cursor \in {NULL} \cup Pointers
           /\ call[p].pc \in Pcs
           /\ call[p].pc \in {"walk", "browse", "size", "create"} => call[p].dir \in Pointers
           /\ call[p].pc \in {"open", "isdir", "clear", "inode"} => call[p].f \in Pointers
           /\ call[p].pc \in {"next", "leaf"} => call[p].new \in Pointers
    /\ \A p \in Procs : \A k \in Kinds : calls[p][k] \in 0..MaxCalls[p][k]
    /\ browsed \subseteq Pointers /\ raced \subseteq Pointers

\* However calls interleave, a file in the tree is what the disk says: the
\* directory it hangs under has an entry of that name with that inode, and
\* the lists never mix the files of two directories (BrowseAndCacheDirectory).
TreeMatchesDisk ==
    /\ TypeOK
    /\ \A f \in Pointers :
        /\ f # Root => [name |-> file[f].name, inum |-> file[f].inum]
                          \in DiskEntries(file[file[f].parent].inum)
        /\ file[f].leaf # NULL => file[file[f].leaf].parent = f /\ file[f].leaf # Root
        /\ file[f].next # NULL => /\ file[file[f].next].parent = file[f].parent
                                  /\ file[f].next # Root

\* A directory that was browsed, and whose list no two calls changed at
\* once, holds every entry of the disk exactly once: what OpenFileFromName
\* does not find there does not exist.  Two calls that do browse it at once
\* may lose files or cache them twice, but never tie the list into a loop.
BrowsedIsComplete ==
    \A d \in Pointers :
        LET chain == Chain(d)
        IN  /\ \A i, j \in DOMAIN chain : chain[i] = chain[j] => i = j
            /\ d \in browsed \ raced =>
                  /\ Len(chain) = Len(EntriesOf(file[d].inum))
                  /\ \A e \in DiskEntries(file[d].inum) : IsCached(d, e.name) # NULL

\* What a path means on the disk.  A place is a file and its directory.
Nowhere == [dir |-> NULL, inum |-> NULL]
PlaceOf(f) == [dir |-> file[file[f].parent].inum, inum |-> file[f].inum]
Parent(inum) ==
    IF inum = RootInode THEN RootInode
    ELSE CHOOSE d \in DOMAIN Entries : \E e \in DiskEntries(d) : e.inum = inum
Below(place, name) ==
    LET found == {e \in DiskEntries(place.inum) : e.name = name}
    IN  IF found = {} THEN Nowhere
        ELSE [dir |-> place.inum, inum |-> (CHOOSE e \in found : TRUE).inum]
Behind(place, name) ==
    IF place = Nowhere \/ name = "." THEN place
    ELSE IF name = ".." THEN [dir |-> Parent(place.dir), inum |-> place.dir]
    ELSE Below(place, name)

\* The places behind the components of a path, Nowhere when there is nothing.
PlacesBehind(start, comps) ==
    LET after[k \in 0..Len(comps)] ==
            IF k = 0 THEN start ELSE Behind(after[k - 1], comps[k])
    IN  after
Resolve(start, comps) == PlacesBehind(start, comps)[Len(comps)]

\* SysOpenDir opens the directory that its path names on the disk, starting
\* at the root or at the directory the process was in, whatever other
\* processes browse meanwhile; and what it does not find, in a directory that
\* was browsed and not changed by two calls at once, makes a path that the
\* disk does not have either (OpenFileFromName).
OpenedIsResolved ==
    \A p \in Procs :
        LET c == call[p]
            meant == Resolve(PlaceOf(c.start), c.path.comps)
        IN  /\ (c.op = "open" /\ c.pc \in {"create", "store"}) => PlaceOf(c.dir) = meant
            /\ (/\ c.pc = "walk" /\ c.rest # <<>> /\ Head(c.rest) \notin {".", ".."}
                /\ IsCached(c.dir, Head(c.rest)) = NULL
                /\ c.dir \in browsed \ raced) => meant = Nowhere

\* Reading a directory that was browsed first, and that no two calls changed
\* at once, gives no name twice, and has given all of them when SysReadDir
\* says that there are no more.
ListingIsExact ==
    \A p \in Procs : \A i \in DOMAIN dirHandleList[p] :
        LET hd == dirHandleList[p][i]
            entries == DiskEntries(file[hd.dir].inum)
        IN  (hd.whole /\ hd.dir \notin raced) =>
                /\ \A j, k \in DOMAIN hd.listed : hd.listed[j] = hd.listed[k] => j = k
                /\ hd.cursor = NULL => {hd.listed[j] : j \in DOMAIN hd.listed}
                                          = {e.name : e \in entries}

\* Unless two calls have incremented s_HandleCount at once, the handles of a
\* process are all different, so that GetDirFromHandle finds the directory
\* that each was made for.
HandlesAreDistinct ==
    torn \/ \A p \in Procs : \A i \in DOMAIN dirHandleList[p] :
        GetDirFromHandle(p, dirHandleList[p][i].handle) = i

\* Whoever looks into an inode, to learn what the file is (IsDirectory) or
\* how big the directory is (BrowseAndCacheDirectory), finds one; and only
\* directories get directory handles.  Unless two calls have read the inode
\* of the file at once: Ext2ReadInode begins with *inode = NULL, and takes
\* away the inode that another call has just found or read.
InodeIsThere ==
    /\ \A p \in Procs :
           /\ call[p].pc = "mode" => file[call[p].f].inode \/ call[p].f \in cleared
           /\ call[p].pc = "size" => file[call[p].dir].inode \/ call[p].dir \in cleared
           /\ call[p].pc = "wild" => call[p].dir \in cleared
    /\ \A p \in Procs : \A i \in DOMAIN dirHandleList[p] :
           LET dir == dirHandleList[p][i].dir IN IsDir(file[dir].inum) \/ dir \in cleared

\* SysOpenDir gives the string of the program back as it was, unless it has
\* answered -1: the error exits of OpenFileFromName leave it cut behind the
\* component that failed, and a program that tries again asks for another
\* directory.
PathIsPutBack ==
    \A p \in Procs :
        LET s == string[p]
        IN  /\ (At(p, "user") /\ s.now # s.wrote) => s.refused
            /\ s.now.abs = s.wrote.abs
            /\ s.now.comps = SubSeq(s.wrote.comps, 1, Len(s.now.comps))
=============================================================================
