----------------------------- MODULE FileSystem -----------------------------
(***************************************************************************)
(* The file system of fs_web.c: a table of files in memory, open handles,  *)
(* and the copies that bridge.js keeps of the files in IndexedDB.          *)
(*                                                                         *)
(* A call changes the table at once and the copies later: onFsPersist and  *)
(* onFsRemove start a request, requests settle in the order in which they  *)
(* were made, and one that fails is only logged.  The page may be closed   *)
(* at any time: the table, the handles and the requests under way are      *)
(* gone, and the next page loads what was stored.                          *)
(*                                                                         *)
(* The callers are the iii core, which is not in the tree, and the code    *)
(* trusts them: a file may be removed while it is open, renamed to a name  *)
(* in use, or written through a handle opened for reading.  No guard rules *)
(* this out here either.  The history misused has the names it was done    *)
(* to, and the properties say that no other name comes to harm.  A call    *)
(* that is refused changes nothing and is no step.                         *)
(***************************************************************************)
EXTENDS Integers, Sequences, FiniteSets

CONSTANTS
    Name,      \* file names
    Data,      \* what a write puts at a position
    Flags,     \* the flags files are opened with: sets of LFS_O_ bits
    none,      \* no file
    junk,      \* memory that nobody has written
    MAX_FILES, \* FS_MAX_FILES
    MAX_OPEN,  \* FS_MAX_OPEN
    MaxSize,   \* bound: positions
    MaxPending \* bound: requests under way

ASSUME FileAssumption ==
    /\ MAX_FILES \in Nat /\ MAX_OPEN \in Nat
    /\ MaxSize \in Nat /\ MaxPending \in Nat
    /\ IsFiniteSet(Name)
    /\ \A flags \in Flags : /\ flags \subseteq {"RDONLY", "WRONLY", "CREAT"}
                            /\ flags \cap {"RDONLY", "WRONLY"} # {}
    /\ none \notin Seq(Data \cup {junk})

VARIABLES
    entries,  \* fs_web.c: the files
    handles,  \* fs_web.c: the open files
    stored,   \* IndexedDB: name -> contents, or none
    pending,  \* IndexedDB: requests under way, oldest first
    loaded,   \* whether the page is past viii_init
    stale,    \* history: names whose copy is not what was last asked for,
              \* since a request failed
    misused   \* history: names a caller of this page has misused

vars == <<entries, handles, stored, pending, loaded, stale, misused>>
dbVars == <<stored, loaded, stale>>

Entry == 0 .. MAX_FILES - 1
Handle == 0 .. MAX_OPEN - 1
Bytes == Seq(Data \cup {junk})

\* A free handle, and a free entry that no handle has: what they held is
\* never looked at again.
Closed == [open |-> FALSE, entry |-> 0, pos |-> 0, flags |-> {}]
Unused == [used |-> FALSE, name |-> "", data |-> <<>>, size |-> 0]

File(n, data) == [used |-> TRUE, name |-> n, data |-> data, size |-> Len(data)]

\* Capacity is left out: what the table can hold of a file is data, and past
\* its end the memory that ensure_capacity gets is not cleared.  A free entry
\* has no data, and a handle that still has it reads, and writes, memory that
\* belongs to others: what that does to them is left out.
Byte(e, i) == IF i <= Len(entries[e].data) THEN entries[e].data[i] ELSE junk

Content(e) == [i \in 1 .. entries[e].size |-> Byte(e, i)]

Holds(e, n) == entries[e].used /\ entries[e].name = n

find_entry(e, n) == Holds(e, n) /\ \A f \in 0 .. e - 1 : ~Holds(f, n)

\* Mutant: the search ends before the last entry.
Exists_short(n) == \E e \in 0 .. MAX_FILES - 2 : Holds(e, n)

Exists(n) == \E e \in Entry : Holds(e, n)

alloc_entry(e) == ~entries[e].used /\ \A f \in 0 .. e - 1 : entries[f].used

alloc_handle(h) == ~handles[h].open /\ \A g \in 0 .. h - 1 : handles[g].open

IsOpen(e) == \E h \in Handle : handles[h].open /\ handles[h].entry = e

Init ==
    /\ entries = [e \in Entry |-> Unused]
    /\ handles = [h \in Handle |-> Closed]
    /\ stored = [n \in Name |-> none]
    /\ pending = <<>> /\ loaded = FALSE /\ stale = {} /\ misused = {}

---------------------------------------------------------------------------
(* Requests to IndexedDB.                                                  *)

Put(n, data) == [name |-> n, data |-> data]
Delete(n) == [name |-> n, data |-> none]

Request(s) ==
    /\ Len(pending) + Len(s) <= MaxPending
    /\ pending' = pending \o s
    /\ UNCHANGED dbVars

RequestSettles ==
    /\ pending # <<>>
    /\ stored' = [stored EXCEPT ![Head(pending).name] = Head(pending).data]
    /\ stale' = stale \ {Head(pending).name}
    /\ pending' = Tail(pending)
    /\ UNCHANGED <<entries, handles, loaded, misused>>

RequestFails ==
    /\ pending # <<>>
    /\ stale' = stale \cup {Head(pending).name}
    /\ pending' = Tail(pending)
    /\ UNCHANGED <<entries, handles, stored, loaded, misused>>

---------------------------------------------------------------------------
(* The calls of fs.h.                                                      *)

Misuses(names) == misused' = misused \cup names

Opened(h, e, flags) ==
    handles' = [handles EXCEPT ![h] =
                  [open |-> TRUE, entry |-> e, pos |-> 0, flags |-> flags]]

fs_file_open(n, flags) ==
    /\ loaded
    /\ \E h \in Handle, e \in Entry :
         /\ alloc_handle(h)
         /\ Opened(h, e, flags)
         /\ \/ /\ find_entry(e, n)
               /\ IF {"CREAT", "WRONLY"} \subseteq flags
                  THEN entries' = [entries EXCEPT ![e].size = 0]
                  ELSE UNCHANGED entries
            \/ /\ ~Exists(n) /\ "CREAT" \in flags
               /\ alloc_entry(e)
               /\ entries' = [entries EXCEPT ![e] = File(n, <<>>)]
    /\ UNCHANGED <<dbVars, pending, misused>>

\* LFS_O_RDWR is both bits, so that LFS_O_RDONLY has one of them.  An entry
\* that is free by now is stored again, under the name it had.
fs_file_close(h) ==
    /\ loaded /\ handles[h].open
    /\ handles' = [handles EXCEPT ![h] = Closed]
    /\ LET e == handles[h].entry IN
         IF handles[h].flags \cap {"WRONLY", "RDONLY"} # {}
         THEN Request(<<Put(entries[e].name, Content(e))>>)
         ELSE UNCHANGED <<dbVars, pending>>
    /\ UNCHANGED <<entries, misused>>

Larger(a, b) == IF a > b THEN a ELSE b

MovesTo(h, pos) ==
    /\ loaded /\ handles[h].open
    /\ pos <= MaxSize
    /\ handles' = [handles EXCEPT ![h].pos = pos]

fs_file_read(h) ==
    /\ \E pos \in handles[h].pos + 1 .. entries[handles[h].entry].size :
         MovesTo(h, pos)
    /\ UNCHANGED <<entries, dbVars, pending, misused>>

\* Mutant: a position before the start is kept.
fs_file_seek_negative(h) ==
    /\ \E pos \in -1 .. MaxSize : MovesTo(h, pos)
    /\ UNCHANGED <<entries, dbVars, pending, misused>>

\* fs_file_seek, whose offset may lead anywhere, and fs_file_rewind.
fs_file_seek(h) ==
    /\ \E pos \in -1 .. MaxSize : MovesTo(h, Larger(pos, 0))
    /\ UNCHANGED <<entries, dbVars, pending, misused>>

\* The flags of the handle are not looked at.
WritesThrough(h) ==
    Misuses(IF "WRONLY" \in handles[h].flags THEN {} ELSE {entries[handles[h].entry].name})

\* A seek past the end leaves a gap of old or uninitialised memory.
fs_file_write(h, d) ==
    LET e == handles[h].entry
        end == handles[h].pos + 1
    IN  /\ MovesTo(h, end)
        /\ WritesThrough(h)
        /\ entries' = [entries EXCEPT
             ![e].data = [i \in 1 .. Larger(Len(@), end) |->
                            IF i = end THEN d ELSE Byte(e, i)],
             ![e].size = Larger(@, end)]
        /\ UNCHANGED <<dbVars, pending>>

\* The size may grow: the memory is as it is.
fs_file_truncate(h, size) ==
    /\ loaded /\ handles[h].open
    /\ WritesThrough(h)
    /\ entries' = [entries EXCEPT ![handles[h].entry].size = size]
    /\ UNCHANGED <<handles, dbVars, pending>>

\* Under a handle, the name and the size of the entry are still there.
Freed(e) == IF IsOpen(e) THEN [entries[e] EXCEPT !.used = FALSE, !.data = <<>>]
                         ELSE Unused

fs_remove(n) ==
    /\ loaded
    /\ \E e \in Entry :
         /\ find_entry(e, n)
         /\ entries' = [entries EXCEPT ![e] = Freed(e)]
         /\ Misuses(IF IsOpen(e) THEN {n} ELSE {})
    /\ Request(<<Delete(n)>>)
    /\ UNCHANGED handles

Renamed(e, new) ==
    /\ entries' = [entries EXCEPT ![e].name = new]
    /\ Misuses(IF \E f \in Entry \ {e} : Holds(f, new) THEN {new} ELSE {})

\* Mutant: the record of the old name stays.
fs_rename_only_puts(old, new) ==
    /\ loaded
    /\ \E e \in Entry :
         /\ find_entry(e, old) /\ Renamed(e, new)
         /\ Request(<<Put(new, Content(e))>>)
    /\ UNCHANGED handles

\* Nothing asks whether the new name is in use, or is the old one.
fs_rename(old, new) ==
    /\ loaded
    /\ \E e \in Entry :
         /\ find_entry(e, old) /\ Renamed(e, new)
         /\ Request(<<Delete(old), Put(new, Content(e))>>)
    /\ UNCHANGED handles

InUse == {e \in Entry : entries[e].used}

\* A request for each file: s has their entries in the order of the table.
fs_reformat ==
    /\ loaded
    /\ entries' = [e \in Entry |-> IF e \in InUse THEN Freed(e) ELSE entries[e]]
    /\ Misuses({entries[e].name : e \in {f \in InUse : IsOpen(f)}})
    /\ \E s \in [1 .. Cardinality(InUse) -> InUse] :
         /\ \A e \in InUse : \E i \in DOMAIN s : s[i] = e
         /\ \A i, j \in DOMAIN s : i < j => s[i] < s[j]
         /\ Request([i \in DOMAIN s |-> Delete(entries[s[i]].name)])
    /\ UNCHANGED handles

---------------------------------------------------------------------------
(* The page.                                                               *)

PageCloses ==
    /\ loaded
    /\ loaded' = FALSE
    /\ pending' = <<>>
    /\ entries' = [e \in Entry |-> Unused]
    /\ handles' = [h \in Handle |-> Closed]
    /\ misused' = {}
    /\ UNCHANGED <<stored, stale>>

\* initWasm: the cursor visits the names in some order, viii_fs_preload
\* takes the first k of them.
Preloaded(k) ==
    \E name \in [0 .. k - 1 -> {n \in Name : stored[n] # none}] :
        /\ \A i, j \in 0 .. k - 1 : i # j => name[i] # name[j]
        /\ entries' = [e \in Entry |-> IF e < k THEN File(name[e], stored[name[e]])
                                                ELSE entries[e]]
        /\ stale' = {n \in Name : stored[n] # none}
                      \ {name[i] : i \in 0 .. k - 1}

Smaller(a, b) == IF a < b THEN a ELSE b

\* All that the table has room for, unless dbLoadAll fails or a call of
\* viii_fs_preload throws: the page goes on with what it has by then.
PageLoads ==
    /\ ~loaded /\ loaded' = TRUE
    /\ \E k \in 0 .. Smaller(MAX_FILES, Cardinality({n \in Name : stored[n] # none})) :
         Preloaded(k)
    /\ UNCHANGED <<handles, stored, pending, misused>>

HandleCall ==
    \E h \in Handle :
        \/ fs_file_close(h) \/ fs_file_read(h) \/ fs_file_seek(h)
        \/ \E d \in Data : fs_file_write(h, d)
        \/ \E size \in 0 .. MaxSize : fs_file_truncate(h, size)

PathCall ==
    \/ \E n \in Name, flags \in Flags : fs_file_open(n, flags)
    \/ \E n \in Name : fs_remove(n)
    \/ \E old, new \in Name : fs_rename(old, new)
    \/ fs_reformat

Next ==
    \/ HandleCall \/ PathCall
    \/ RequestSettles \/ RequestFails
    \/ PageCloses \/ PageLoads

Spec == Init /\ [][Next]_vars

---------------------------------------------------------------------------
FileType == [used : BOOLEAN, name : Name, data : Bytes, size : Nat]
HandleType == [open : {TRUE}, entry : Entry, pos : Nat, flags : Flags]

\* The types; stored copies and requests are whole byte sequences or none.
TypeOK ==
    /\ entries \in [Entry -> {Unused} \cup FileType]
    /\ handles \in [Handle -> {Closed} \cup HandleType]
    /\ stored \in [Name -> Bytes \cup {none}]
    /\ pending \in Seq([name : Name, data : Bytes \cup {none}])
    /\ loaded \in BOOLEAN /\ stale \subseteq Name /\ misused \subseteq Name

\* Whatever is opened, removed, renamed and loaded, in whatever order, a name
\* means one file and an open handle has a file: except for the names that a
\* caller gave to a second file, or removed under an open handle.  The handle
\* that outlives its file may come to be one of the next file of that entry:
\* no further name is drawn in.
TableSound ==
    /\ \A e, f \in Entry :
         entries[e].used /\ entries[f].used /\ entries[e].name = entries[f].name
           => e = f \/ entries[e].name \in misused
    /\ \A h \in Handle :
         handles[h].open => LET e == handles[h].entry IN
                              entries[e].used \/ entries[e].name \in misused

InMemory(n, data) ==
    IF data = none THEN ~Exists(n)
                   ELSE \E e \in Entry : Holds(e, n) /\ Content(e) = data

BeingWritten(n) ==
    \E h \in Handle : /\ handles[h].open
                      /\ handles[h].flags \cap {"WRONLY", "CREAT"} # {}
                      /\ entries[handles[h].entry].name = n

Requested(n) == \E i \in DOMAIN pending : pending[i].name = n

LastRequest(i, n) ==
    /\ pending[i].name = n
    /\ \A j \in DOMAIN pending : j > i => pending[j].name # n

Follows(n) ==
    \/ \E i \in DOMAIN pending : LastRequest(i, n) /\ InMemory(n, pending[i].data)
    \/ ~Requested(n) /\ (n \in stale \/ InMemory(n, stored[n]))

\* For a file that is not being written, the last request about it - or, when
\* there is none under way, the stored copy - is what memory holds: once the
\* requests have settled, closing the page loses nothing and revives nothing.
\* What a caller does to one name, the files of the others do not feel.
StoredFollows ==
    loaded => \A n \in Name \ misused : BeingWritten(n) \/ Follows(n)
=============================================================================
