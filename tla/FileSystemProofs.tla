-------------------------- MODULE FileSystemProofs --------------------------
(***************************************************************************)
(* Theorems about FileSystem for every set of names and data, every size   *)
(* of the tables and every bound: the types, that a name means one file,   *)
(* and that the copies in IndexedDB follow the files in memory, for every  *)
(* name that no caller has misused and whatever was done to the others.    *)
(*                                                                         *)
(* The three are inductive together with what holds before a page has      *)
(* loaded: nothing is in memory and nothing is under way.                  *)
(***************************************************************************)
EXTENDS FileSystem, SequenceTheorems, FiniteSetTheorems, TLAPS

Requests == [name : Name, data : Bytes \cup {none}]

NothingBeforeLoad ==
    ~loaded => /\ pending = <<>>
               /\ \A e \in Entry : ~entries[e].used
               /\ \A h \in Handle : ~handles[h].open

IInv == TypeOK /\ TableSound /\ StoredFollows /\ NothingBeforeLoad

---------------------------------------------------------------------------
(* Facts about sequences and about the operators.                          *)

LEMMA Concatenation ==
    ASSUME NEW S, NEW p \in Seq(S), NEW s \in Seq(S)
    PROVE  /\ p \o s \in Seq(S)
           /\ DOMAIN (p \o s) = 1 .. Len(p) + Len(s)
           /\ DOMAIN p = 1 .. Len(p) /\ DOMAIN s = 1 .. Len(s)
           /\ \A i \in 1 .. Len(p) : (p \o s)[i] = p[i]
           /\ \A i \in 1 .. Len(s) : (p \o s)[Len(p) + i] = s[i]
<1>1. Len(p) \in Nat /\ Len(s) \in Nat
  BY LenProperties
<1>2. p \o s \in Seq(S) /\ Len(p \o s) = Len(p) + Len(s)
  BY ConcatProperties
<1>3. \A i \in 1 .. Len(p) + Len(s) :
        (p \o s)[i] = IF i <= Len(p) THEN p[i] ELSE s[i - Len(p)]
  BY ConcatProperties
<1>4. /\ DOMAIN p = 1 .. Len(p) /\ DOMAIN s = 1 .. Len(s)
      /\ DOMAIN (p \o s) = 1 .. Len(p \o s)
  BY <1>2, LenProperties
<1>5. ASSUME NEW i \in 1 .. Len(s) PROVE (p \o s)[Len(p) + i] = s[i]
  <2>1. Len(p) + i \in 1 .. Len(p) + Len(s) /\ ~(Len(p) + i <= Len(p))
    BY <1>1
  <2>2. (p \o s)[Len(p) + i] = s[Len(p) + i - Len(p)]
    BY <2>1, <1>3
  <2>. QED  BY <2>2, <1>1
<1>6. ASSUME NEW i \in 1 .. Len(p) PROVE (p \o s)[i] = p[i]
  BY <1>1, <1>3
<1>. QED  BY <1>2, <1>4, <1>5, <1>6

LEMMA FunctionIsSeq ==
    ASSUME NEW S, NEW n \in Nat, NEW f \in [1 .. n -> S]
    PROVE  f \in Seq(S) /\ Len(f) = n
<1>1. f \in Seq(S)
  BY SeqDef
<1>2. Len(f) \in Nat /\ DOMAIN f = 1 .. Len(f)
  BY <1>1, LenProperties
<1>3. 1 .. Len(f) = 1 .. n
  BY <1>2
<1>. QED  BY <1>1, <1>2, <1>3

\* What the types say of a file in use and of an open handle.
LEMMA FieldTypes ==
    ASSUME TypeOK
    PROVE  /\ \A e \in Entry :
                /\ entries[e].used \in BOOLEAN
                /\ entries[e].used => entries[e] \in FileType
                /\ entries[e].data \in Bytes
                /\ entries[e].size \in Nat
           /\ \A h \in Handle :
                /\ handles[h].open \in BOOLEAN
                /\ handles[h].open => handles[h] \in HandleType
<1>1. <<>> \in Bytes
  BY EmptySeq DEF Bytes
<1>2. ASSUME NEW e \in Entry
      PROVE  /\ entries[e].used \in BOOLEAN
             /\ entries[e].used => entries[e] \in FileType
             /\ entries[e].data \in Bytes /\ entries[e].size \in Nat
  <2>1. CASE entries[e] = Unused
    <3>1. Unused.used = FALSE /\ Unused.data = <<>> /\ Unused.size = 0
      BY DEF Unused
    <3>2. ~entries[e].used /\ entries[e].used \in BOOLEAN
      BY <2>1, <3>1
    <3>3. entries[e].data \in Bytes /\ entries[e].size \in Nat
      BY <2>1, <3>1, <1>1
    <3>. QED  BY <3>2, <3>3
  <2>2. CASE entries[e] \in FileType
    BY <2>2 DEF FileType
  <2>. QED  BY <2>1, <2>2 DEF TypeOK
<1>3. ASSUME NEW h \in Handle
      PROVE  /\ handles[h].open \in BOOLEAN
             /\ handles[h].open => handles[h] \in HandleType
  <2>1. CASE handles[h] = Closed
    BY <2>1 DEF Closed
  <2>2. CASE handles[h] \in HandleType
    BY <2>2 DEF HandleType
  <2>. QED  BY <2>1, <2>2 DEF TypeOK
<1>. QED  BY <1>2, <1>3

\* What js_fs_persist copies is a sequence of bytes.
LEMMA ContentType ==
    ASSUME TypeOK, NEW e \in Entry
    PROVE  Content(e) \in Bytes
<1>1. entries[e].size \in Nat /\ entries[e].data \in Bytes
  BY FieldTypes
<1>2. /\ Len(entries[e].data) \in Nat
      /\ entries[e].data \in [1 .. Len(entries[e].data) -> Data \cup {junk}]
  BY <1>1, LenProperties DEF Bytes
<1>3. ASSUME NEW i \in 1 .. entries[e].size PROVE Byte(e, i) \in Data \cup {junk}
  <2>1. i \in Nat /\ i >= 1
    BY <1>1
  <2>2. CASE i <= Len(entries[e].data)
    <3>1. i \in 1 .. Len(entries[e].data)
      BY <2>1, <2>2, <1>2
    <3>. QED  BY <3>1, <2>2, <1>2 DEF Byte
  <2>3. CASE ~(i <= Len(entries[e].data))
    BY <2>3 DEF Byte
  <2>. QED  BY <2>2, <2>3
<1>4. Content(e) \in [1 .. entries[e].size -> Data \cup {junk}]
  BY <1>3 DEF Content
<1>. QED  BY <1>1, <1>4, FunctionIsSeq DEF Bytes

LEMMA RequestTypes ==
    ASSUME TypeOK, NEW s \in Seq(Requests), Request(s)
    PROVE  /\ pending' \in Seq(Requests)
           /\ stored' = stored /\ stale' = stale /\ loaded' = loaded
<1>1. pending \in Seq(Requests)
  BY DEF TypeOK, Requests
<1>. QED  BY <1>1, Concatenation DEF Request, dbVars

\* A file as it is created or loaded has the contents it was given.
LEMMA LoadedContent ==
    ASSUME NEW e \in Entry, NEW n \in Name, NEW data \in Bytes,
           entries'[e] = File(n, data)
    PROVE  Holds(e, n)' /\ Content(e)' = data
<1>1. Len(data) \in Nat /\ data \in [1 .. Len(data) -> Data \cup {junk}]
  BY LenProperties DEF Bytes
<1>2. /\ entries'[e].used /\ entries'[e].name = n
      /\ entries'[e].data = data /\ entries'[e].size = Len(data)
  BY DEF File
<1>3. \A i \in 1 .. Len(data) : Byte(e, i)' = data[i]
  BY <1>1, <1>2 DEF Byte
<1>. QED  BY <1>1, <1>2, <1>3 DEF Content, Holds

---------------------------------------------------------------------------
(* How the copies of a name follow, step by step.                          *)

\* Memory holds of a name what it held when the entries that have the name,
\* before or after, are not touched.
LEMMA SameInMemory ==
    ASSUME NEW n, \A e \in Entry : Holds(e, n) \/ Holds(e, n)' => entries'[e] = entries[e]
    PROVE  \A data : InMemory(n, data)' <=> InMemory(n, data)
<1>1. \A e \in Entry : Holds(e, n)' <=> Holds(e, n)
  BY DEF Holds
<1>2. ASSUME NEW e \in Entry, Holds(e, n) PROVE Content(e)' = Content(e)
  BY <1>2 DEF Content, Byte
<1>. QED  BY <1>1, <1>2 DEF InMemory, Exists

\* A request that is the last one, and says what memory holds.
LEMMA FollowsOwnRequest ==
    ASSUME TypeOK, NEW s \in Seq(Requests), Request(s), NEW n \in Name,
           NEW k \in 1 .. Len(s), s[k].name = n,
           \A j \in 1 .. Len(s) : j > k => s[j].name # n,
           InMemory(n, s[k].data)'
    PROVE  Follows(n)'
<1>1. pending \in Seq(Requests) /\ pending' = pending \o s
  BY DEF TypeOK, Requests, Request
<1>2. Len(pending) \in Nat /\ Len(s) \in Nat
  BY <1>1, LenProperties
<1>3. /\ DOMAIN pending' = 1 .. Len(pending) + Len(s)
      /\ \A i \in 1 .. Len(s) : pending'[Len(pending) + i] = s[i]
  BY <1>1, Concatenation
<1>4. Len(pending) + k \in DOMAIN pending' /\ pending'[Len(pending) + k] = s[k]
  BY <1>2, <1>3
<1>5. ASSUME NEW j \in DOMAIN pending', j > Len(pending) + k
      PROVE  pending'[j].name # n
  <2>1. j - Len(pending) \in 1 .. Len(s) /\ j - Len(pending) > k
    BY <1>2, <1>3, <1>5
  <2>2. Len(pending) + (j - Len(pending)) = j
    BY <1>2, <1>3
  <2>3. pending'[j] = s[j - Len(pending)]
    BY <2>1, <2>2, <1>3
  <2>. QED  BY <2>1, <2>3
<1>. QED  BY <1>4, <1>5 DEF Follows, LastRequest

\* Requests about other names change nothing for a name.
LEMMA FollowsOtherRequests ==
    ASSUME TypeOK, NEW s \in Seq(Requests), Request(s), NEW n \in Name,
           \A k \in 1 .. Len(s) : s[k].name # n,
           \A data : InMemory(n, data)' <=> InMemory(n, data),
           Follows(n)
    PROVE  Follows(n)'
<1>1. pending \in Seq(Requests) /\ pending' = pending \o s
  BY DEF TypeOK, Requests, Request
<1>2. Len(pending) \in Nat /\ Len(s) \in Nat
  BY <1>1, LenProperties
<1>3. /\ DOMAIN pending' = 1 .. Len(pending) + Len(s)
      /\ DOMAIN pending = 1 .. Len(pending)
      /\ \A i \in 1 .. Len(pending) : pending'[i] = pending[i]
      /\ \A i \in 1 .. Len(s) : pending'[Len(pending) + i] = s[i]
  BY <1>1, Concatenation
<1>4. ASSUME NEW j \in DOMAIN pending', j \notin DOMAIN pending
      PROVE  pending'[j].name # n
  <2>1. j - Len(pending) \in 1 .. Len(s)
    BY <1>2, <1>3, <1>4
  <2>2. Len(pending) + (j - Len(pending)) = j
    BY <1>2, <1>3
  <2>3. pending'[j] = s[j - Len(pending)]
    BY <2>1, <2>2, <1>3
  <2>. QED  BY <2>1, <2>3
<1>5. \A i \in DOMAIN pending : i \in DOMAIN pending' /\ pending'[i] = pending[i]
  BY <1>2, <1>3
<1>6. stored' = stored /\ stale' = stale
  BY RequestTypes
<1>7. CASE \E i \in DOMAIN pending : LastRequest(i, n) /\ InMemory(n, pending[i].data)
  <2>1. PICK i \in DOMAIN pending : LastRequest(i, n) /\ InMemory(n, pending[i].data)
    BY <1>7
  <2>2. LastRequest(i, n)'
    BY <2>1, <1>4, <1>5 DEF LastRequest
  <2>. QED  BY <2>1, <2>2, <1>5 DEF Follows
<1>8. CASE ~Requested(n) /\ (n \in stale \/ InMemory(n, stored[n]))
  BY <1>8, <1>4, <1>5, <1>6 DEF Follows, Requested
<1>. QED  BY <1>7, <1>8 DEF Follows

\* A step that makes no request.
LEMMA FollowsUnchanged ==
    ASSUME UNCHANGED <<dbVars, pending>>, NEW n,
           \A data : InMemory(n, data)' <=> InMemory(n, data),
           Follows(n)
    PROVE  Follows(n)'
BY DEF Follows, Requested, LastRequest, dbVars

---------------------------------------------------------------------------
(* The types.                                                              *)

LEMMA OneRequest ==
    ASSUME NEW r \in Requests
    PROVE  <<r>> \in Seq(Requests) /\ Len(<<r>>) = 1 /\ <<r>>[1] = r
OBVIOUS

LEMMA TwoRequests ==
    ASSUME NEW q \in Requests, NEW r \in Requests
    PROVE  <<q, r>> \in Seq(Requests) /\ Len(<<q, r>>) = 2
           /\ <<q, r>>[1] = q /\ <<q, r>>[2] = r
OBVIOUS

\* What each kind of request is, and that a file in use has a name.
LEMMA RequestKinds ==
    ASSUME TypeOK, NEW n \in Name
    PROVE  /\ Delete(n) \in Requests
           /\ \A e \in Entry : Put(n, Content(e)) \in Requests
BY ContentType DEF Delete, Put, Requests

LEMMA NewFileType ==
    ASSUME NEW n \in Name, NEW data \in Bytes
    PROVE  File(n, data) \in FileType
<1>1. Len(data) \in Nat
  BY LenProperties DEF Bytes
<1>. QED  BY <1>1 DEF File, FileType

\* The entry after a write: the new byte, the old ones, and what lies between.
LEMMA WriteType ==
    ASSUME TypeOK, NEW e \in Entry, NEW end \in Nat, NEW d \in Data
    PROVE  /\ [i \in 1 .. Larger(Len(entries[e].data), end) |->
                  IF i = end THEN d ELSE Byte(e, i)] \in Bytes
           /\ Larger(entries[e].size, end) \in Nat
<1>1. entries[e].size \in Nat /\ entries[e].data \in Bytes
  BY FieldTypes
<1>2. /\ Len(entries[e].data) \in Nat
      /\ entries[e].data \in [1 .. Len(entries[e].data) -> Data \cup {junk}]
  BY <1>1, LenProperties DEF Bytes
<1>3. Larger(Len(entries[e].data), end) \in Nat
  BY <1>2 DEF Larger
<1>4. ASSUME NEW i \in 1 .. Larger(Len(entries[e].data), end)
      PROVE  Byte(e, i) \in Data \cup {junk}
  <2>1. CASE i <= Len(entries[e].data)
    <3>1. i \in 1 .. Len(entries[e].data)
      BY <1>3, <1>2, <2>1
    <3>. QED  BY <3>1, <2>1, <1>2 DEF Byte
  <2>2. CASE ~(i <= Len(entries[e].data))
    BY <2>2 DEF Byte
  <2>. QED  BY <2>1, <2>2
<1>5. [i \in 1 .. Larger(Len(entries[e].data), end) |-> IF i = end THEN d ELSE Byte(e, i)]
        \in [1 .. Larger(Len(entries[e].data), end) -> Data \cup {junk}]
  BY <1>4
<1>6. Larger(entries[e].size, end) \in Nat
  BY <1>1 DEF Larger
<1>. QED  BY <1>3, <1>5, <1>6, FunctionIsSeq DEF Bytes

LEMMA InitTypes == Init => TypeOK
<1>1. <<>> \in Seq([name : Name, data : Bytes \cup {none}])
  BY EmptySeq
<1>. QED  BY <1>1 DEF Init, TypeOK

LEMMA OpenedTypes ==
    ASSUME TypeOK, NEW h \in Handle, NEW e \in Entry, NEW flags \in Flags,
           Opened(h, e, flags)
    PROVE  handles' \in [Handle -> {Closed} \cup HandleType]
<1>1. [open |-> TRUE, entry |-> e, pos |-> 0, flags |-> flags] \in HandleType
  BY DEF HandleType
<1>. QED  BY <1>1 DEF Opened, TypeOK

LEMMA MovesToTypes ==
    ASSUME TypeOK, NEW h \in Handle, NEW pos \in Nat, MovesTo(h, pos)
    PROVE  handles' \in [Handle -> {Closed} \cup HandleType]
<1>1. handles[h] \in HandleType
  BY FieldTypes DEF MovesTo
<1>2. [handles[h] EXCEPT !.pos = pos] \in HandleType
  BY <1>1 DEF HandleType
<1>3. handles' = [handles EXCEPT ![h] = [handles[h] EXCEPT !.pos = pos]]
  BY DEF MovesTo
<1>. QED  BY <1>2, <1>3 DEF TypeOK

\* An entry is changed to a file, and the rest of the table stays.
LEMMA EntriesTypes ==
    ASSUME TypeOK, NEW e \in Entry, NEW f \in FileType \cup {Unused},
           entries' = [entries EXCEPT ![e] = f]
    PROVE  entries' \in [Entry -> {Unused} \cup FileType]
BY DEF TypeOK

\* A request keeps the types when the table and the handles do.
LEMMA RequestKeepsTypes ==
    ASSUME TypeOK, NEW s \in Seq(Requests), Request(s),
           entries' \in [Entry -> {Unused} \cup FileType],
           handles' \in [Handle -> {Closed} \cup HandleType],
           misused' \subseteq Name
    PROVE  TypeOK'
BY RequestTypes DEF TypeOK, Requests

LEMMA NoRequestKeepsTypes ==
    ASSUME TypeOK, UNCHANGED <<dbVars, pending>>,
           entries' \in [Entry -> {Unused} \cup FileType],
           handles' \in [Handle -> {Closed} \cup HandleType],
           misused' \subseteq Name
    PROVE  TypeOK'
BY DEF TypeOK, dbVars

LEMMA MisuseGrows ==
    ASSUME TypeOK, NEW names \in SUBSET Name, Misuses(names)
    PROVE  misused' \subseteq Name /\ misused \subseteq misused' /\ names \subseteq misused'
BY DEF Misuses, TypeOK

LEMMA InUseFinite == IsFiniteSet(InUse) /\ Cardinality(InUse) \in Nat
<1>1. IsFiniteSet(Entry)
  BY FileAssumption, FS_Interval DEF Entry, FileAssumption
<1>2. InUse \subseteq Entry
  BY DEF InUse
<1>. QED  BY <1>1, <1>2, FS_Subset, FS_CardinalityType

\* The entry of an open handle has a name, even when the file is gone.
LEMMA HandleTypes ==
    ASSUME TypeOK, TableSound, NEW h \in Handle, handles[h].open
    PROVE  /\ handles[h].entry \in Entry /\ handles[h].pos \in Nat
           /\ handles[h].flags \in Flags
           /\ \/ entries[handles[h].entry].used
              \/ entries[handles[h].entry].name \in misused
           /\ entries[handles[h].entry] \in FileType
           /\ entries[handles[h].entry].name \in Name
<1>. DEFINE e == handles[h].entry
<1>1. handles[h] \in HandleType
  BY FieldTypes
<1>2. e \in Entry /\ handles[h].pos \in Nat /\ handles[h].flags \in Flags
  BY <1>1 DEF HandleType
<1>3. entries[e].used \/ entries[e].name \in misused
  BY DEF TableSound
<1>4. entries[e].name \in Name
  <2>1. CASE entries[e].used
    BY <1>2, <2>1, FieldTypes DEF FileType
  <2>. QED  BY <1>3, <2>1 DEF TypeOK
<1>5. entries[e] \in FileType
  <2>1. CASE entries[e] = Unused
    <3>1. <<>> \in Bytes
      BY EmptySeq DEF Bytes
    <3>2. Unused.name \in Name
      BY <1>4, <2>1
    <3>3. Unused \in FileType
      BY <3>1, <3>2 DEF Unused, FileType
    <3>. QED  BY <2>1, <3>3
  <2>. QED  BY <1>2, <2>1 DEF TypeOK
<1>. QED  BY <1>2, <1>3, <1>4, <1>5

\* Who writes through a handle that is not open for it misuses the name.
LEMMA WritesThroughTypes ==
    ASSUME TypeOK, TableSound, NEW h \in Handle, handles[h].open, WritesThrough(h)
    PROVE  /\ misused' \subseteq Name /\ misused \subseteq misused'
           /\ \/ "WRONLY" \in handles[h].flags
              \/ entries[handles[h].entry].name \in misused'
<1>. DEFINE names == IF "WRONLY" \in handles[h].flags THEN {}
                     ELSE {entries[handles[h].entry].name}
<1>1. names \in SUBSET Name
  BY HandleTypes
<1>2. Misuses(names)
  BY DEF WritesThrough
<1>3. misused' \subseteq Name /\ misused \subseteq misused' /\ names \subseteq misused'
  BY <1>1, <1>2, MisuseGrows
<1>. QED  BY <1>3

LEMMA HandleCallTypes == TypeOK /\ TableSound /\ HandleCall => TypeOK'
<1>. SUFFICES ASSUME TypeOK, TableSound, HandleCall PROVE TypeOK'
  OBVIOUS
<1>. USE DEF HandleCall
<1>1. ASSUME NEW h \in Handle, fs_file_close(h) PROVE TypeOK'
  <2>. DEFINE e == handles[h].entry
             s == <<Put(entries[e].name, Content(e))>>
  <2>1. e \in Entry /\ entries[e].name \in Name
    BY <1>1, HandleTypes DEF fs_file_close
  <2>2. Put(entries[e].name, Content(e)) \in Requests
    BY <2>1, RequestKinds
  <2>3. s \in Seq(Requests)
    BY <2>2, OneRequest
  <2>4. entries' \in [Entry -> {Unused} \cup FileType] /\ handles' \in [Handle -> {Closed} \cup HandleType]
    BY <1>1 DEF fs_file_close, TypeOK
  <2>5. /\ Request(s) \/ UNCHANGED <<dbVars, pending>>
        /\ misused' \subseteq Name
    BY <1>1 DEF fs_file_close, TypeOK
  <2>. HIDE DEF s
  <2>. QED  BY <2>3, <2>4, <2>5, RequestKeepsTypes, NoRequestKeepsTypes
<1>2. ASSUME NEW h \in Handle, fs_file_read(h) PROVE TypeOK'
  <2>1. PICK pos \in handles[h].pos + 1 .. entries[handles[h].entry].size : MovesTo(h, pos)
    BY <1>2 DEF fs_file_read
  <2>2. handles[h].pos \in Nat
    BY <2>1, HandleTypes DEF MovesTo
  <2>3. pos \in Nat
    <3>1. entries[handles[h].entry].size \in Nat
      BY <2>1, HandleTypes, FieldTypes DEF MovesTo
    <3>. QED  BY <2>2, <3>1
  <2>4. handles' \in [Handle -> {Closed} \cup HandleType]
    BY <2>1, <2>3, MovesToTypes
  <2>. QED  BY <1>2, <2>4, NoRequestKeepsTypes DEF fs_file_read, TypeOK
<1>3. ASSUME NEW h \in Handle, fs_file_seek(h) PROVE TypeOK'
  <2>1. PICK pos \in -1 .. MaxSize : MovesTo(h, Larger(pos, 0))
    BY <1>3 DEF fs_file_seek
  <2>4. Larger(pos, 0) \in Nat
    BY FileAssumption DEF Larger, FileAssumption
  <2>5. handles' \in [Handle -> {Closed} \cup HandleType]
    BY <2>1, <2>4, MovesToTypes
  <2>. QED  BY <1>3, <2>5, NoRequestKeepsTypes DEF fs_file_seek, TypeOK
<1>4. ASSUME NEW h \in Handle, NEW d \in Data, fs_file_write(h, d) PROVE TypeOK'
  <2>. DEFINE e == handles[h].entry
             end == handles[h].pos + 1
             f == [entries[e] EXCEPT
                     !.data = [i \in 1 .. Larger(Len(@), end) |-> IF i = end THEN d ELSE Byte(e, i)],
                     !.size = Larger(@, end)]
  <2>1. e \in Entry /\ end \in Nat /\ entries[e] \in FileType
    BY <1>4, HandleTypes DEF fs_file_write, MovesTo
  <2>2. entries' = [entries EXCEPT ![e] = f] /\ MovesTo(h, end) /\ UNCHANGED <<dbVars, pending>>
    BY <1>4 DEF fs_file_write
  <2>3. f \in FileType
    BY <2>1, WriteType DEF FileType
  <2>. HIDE DEF f, e, end
  <2>4. entries' \in [Entry -> {Unused} \cup FileType]
    BY <2>1, <2>2, <2>3, EntriesTypes
  <2>5. handles' \in [Handle -> {Closed} \cup HandleType]
    BY <2>1, <2>2, MovesToTypes
  <2>6. misused' \subseteq Name
    BY <1>4, WritesThroughTypes DEF fs_file_write, MovesTo
  <2>. QED  BY <2>2, <2>4, <2>5, <2>6, NoRequestKeepsTypes
<1>5. ASSUME NEW h \in Handle, NEW size \in 0 .. MaxSize, fs_file_truncate(h, size) PROVE TypeOK'
  <2>. DEFINE e == handles[h].entry
             f == [entries[e] EXCEPT !.size = size]
  <2>1. e \in Entry /\ entries[e] \in FileType
    BY <1>5, HandleTypes DEF fs_file_truncate
  <2>2. entries' = [entries EXCEPT ![e] = f] /\ UNCHANGED <<dbVars, pending, handles>>
    BY <1>5 DEF fs_file_truncate
  <2>3. f \in FileType
    <3>1. size \in Nat
      BY FileAssumption DEF FileAssumption
    <3>. QED  BY <2>1, <3>1 DEF FileType
  <2>. HIDE DEF f, e
  <2>4. entries' \in [Entry -> {Unused} \cup FileType]
    BY <2>1, <2>2, <2>3, EntriesTypes
  <2>5. misused' \subseteq Name
    BY <1>5, WritesThroughTypes DEF fs_file_truncate
  <2>. QED  BY <2>2, <2>4, <2>5, NoRequestKeepsTypes DEF TypeOK
<1>. QED  BY <1>1, <1>2, <1>3, <1>4, <1>5

\* What is left of a file that is removed.
LEMMA FreedEntry ==
    ASSUME TypeOK, NEW e \in Entry, entries[e].used
    PROVE  /\ Freed(e) \in {Unused} \cup FileType /\ ~Freed(e).used
           /\ IsOpen(e) => Freed(e).name = entries[e].name
<1>1. entries[e] \in FileType /\ <<>> \in Bytes /\ ~Unused.used
  BY FieldTypes, EmptySeq DEF Bytes, Unused
<1>. QED  BY <1>1 DEF Freed, FileType

LEMMA PathCallTypes == TypeOK /\ PathCall => TypeOK'
<1>. SUFFICES ASSUME TypeOK, PathCall PROVE TypeOK'
  OBVIOUS
<1>1. ASSUME NEW n \in Name, NEW flags \in Flags, fs_file_open(n, flags) PROVE TypeOK'
  <2>1. PICK h \in Handle, e \in Entry :
          /\ Opened(h, e, flags)
          /\ \/ /\ find_entry(e, n)
                /\ IF {"CREAT", "WRONLY"} \subseteq flags
                   THEN entries' = [entries EXCEPT ![e].size = 0]
                   ELSE UNCHANGED entries
             \/ entries' = [entries EXCEPT ![e] = File(n, <<>>)]
    BY <1>1 DEF fs_file_open
  <2>2. handles' \in [Handle -> {Closed} \cup HandleType]
    BY <2>1, OpenedTypes
  <2>3. entries' \in [Entry -> {Unused} \cup FileType]
    <3>1. CASE find_entry(e, n) /\ entries' = [entries EXCEPT ![e].size = 0]
      <4>1. entries[e] \in FileType
        BY <3>1, FieldTypes DEF find_entry, Holds
      <4>2. [entries[e] EXCEPT !.size = 0] \in FileType
        BY <4>1 DEF FileType
      <4>. QED  BY <3>1, <4>2 DEF TypeOK
    <3>2. CASE entries' = [entries EXCEPT ![e] = File(n, <<>>)]
      <4>1. <<>> \in Bytes
        BY EmptySeq DEF Bytes
      <4>. QED  BY <3>2, <4>1, NewFileType DEF TypeOK
    <3>3. CASE UNCHANGED entries
      BY <3>3 DEF TypeOK
    <3>. QED  BY <2>1, <3>1, <3>2, <3>3
  <2>. QED  BY <1>1, <2>2, <2>3, NoRequestKeepsTypes DEF fs_file_open, TypeOK
<1>2. ASSUME NEW n \in Name, fs_remove(n) PROVE TypeOK'
  <2>1. Request(<<Delete(n)>>) /\ handles' \in [Handle -> {Closed} \cup HandleType]
    BY <1>2 DEF fs_remove, TypeOK
  <2>2. PICK e \in Entry : /\ find_entry(e, n)
                           /\ entries' = [entries EXCEPT ![e] = Freed(e)]
                           /\ Misuses(IF IsOpen(e) THEN {n} ELSE {})
    BY <1>2 DEF fs_remove
  <2>3. entries' \in [Entry -> {Unused} \cup FileType]
    BY <2>2, FreedEntry DEF find_entry, Holds, TypeOK
  <2>4. <<Delete(n)>> \in Seq(Requests)
    BY RequestKinds, OneRequest
  <2>5. misused' \subseteq Name
    BY <2>2 DEF Misuses, TypeOK
  <2>. QED  BY <2>1, <2>3, <2>4, <2>5, RequestKeepsTypes
<1>3. ASSUME NEW old \in Name, NEW new \in Name, fs_rename(old, new) PROVE TypeOK'
  <2>1. PICK e \in Entry :
          /\ find_entry(e, old)
          /\ entries' = [entries EXCEPT ![e].name = new]
          /\ Misuses(IF \E f \in Entry \ {e} : Holds(f, new) THEN {new} ELSE {})
          /\ Request(<<Delete(old), Put(new, Content(e))>>)
    BY <1>3 DEF fs_rename, Renamed
  <2>2. entries' \in [Entry -> {Unused} \cup FileType]
    <3>1. entries[e] \in FileType
      BY <2>1, FieldTypes DEF find_entry, Holds
    <3>2. [entries[e] EXCEPT !.name = new] \in FileType
      BY <3>1 DEF FileType
    <3>. QED  BY <2>1, <3>2 DEF TypeOK
  <2>3. <<Delete(old), Put(new, Content(e))>> \in Seq(Requests)
    BY RequestKinds, TwoRequests
  <2>4. handles' \in [Handle -> {Closed} \cup HandleType]
    BY <1>3 DEF fs_rename, TypeOK
  <2>5. misused' \subseteq Name
    BY <2>1 DEF Misuses, TypeOK
  <2>. QED  BY <2>1, <2>2, <2>3, <2>4, <2>5, RequestKeepsTypes
<1>4. ASSUME fs_reformat PROVE TypeOK'
  <2>1. PICK s \in [1 .. Cardinality(InUse) -> InUse] :
          Request([i \in DOMAIN s |-> Delete(entries[s[i]].name)])
    BY <1>4 DEF fs_reformat
  <2>2. \A e \in InUse : e \in Entry /\ entries[e].used /\ entries[e].name \in Name
    BY FieldTypes DEF InUse, FileType
  <2>3. [i \in DOMAIN s |-> Delete(entries[s[i]].name)] \in Seq(Requests)
    <3>1. [i \in DOMAIN s |-> Delete(entries[s[i]].name)] \in [1 .. Cardinality(InUse) -> Requests]
      BY <2>2, RequestKinds
    <3>. QED  BY <3>1, InUseFinite, FunctionIsSeq
  <2>4. handles' \in [Handle -> {Closed} \cup HandleType]
    BY <1>4 DEF fs_reformat, TypeOK
  <2>5. entries' \in [Entry -> {Unused} \cup FileType]
    <3>1. entries' = [e \in Entry |-> IF e \in InUse THEN Freed(e) ELSE entries[e]]
      BY <1>4 DEF fs_reformat
    <3>2. \A e \in InUse : Freed(e) \in {Unused} \cup FileType
      BY <2>2, FreedEntry
    <3>. QED  BY <3>1, <3>2 DEF TypeOK
  <2>6. misused' \subseteq Name
    BY <1>4, <2>2 DEF fs_reformat, Misuses, TypeOK
  <2>. QED  BY <2>1, <2>3, <2>4, <2>5, <2>6, RequestKeepsTypes
<1>. QED  BY <1>1, <1>2, <1>3, <1>4 DEF PathCall

LEMMA SettledTypes ==
    ASSUME TypeOK, pending # <<>>
    PROVE  /\ Head(pending) \in Requests /\ Head(pending) = pending[1]
           /\ Tail(pending) \in Seq(Requests)
           /\ DOMAIN pending = 1 .. Len(pending) /\ Len(pending) \in Nat \ {0}
           /\ DOMAIN Tail(pending) = 1 .. Len(pending) - 1
           /\ \A i \in 1 .. Len(pending) - 1 : Tail(pending)[i] = pending[i + 1]
<1>1. pending \in Seq(Requests)
  BY DEF TypeOK, Requests
<1>2. /\ Head(pending) \in Requests /\ Tail(pending) \in Seq(Requests)
      /\ Len(Tail(pending)) = Len(pending) - 1
      /\ \A i \in 1 .. Len(pending) - 1 : Tail(pending)[i] = pending[i + 1]
  BY <1>1, HeadTailProperties
<1>3. DOMAIN pending = 1 .. Len(pending) /\ Len(pending) \in Nat \ {0}
  BY <1>1, LenProperties, EmptySeq
<1>4. DOMAIN Tail(pending) = 1 .. Len(pending) - 1
  BY <1>2, LenProperties
<1>. QED  BY <1>2, <1>3, <1>4

LEMMA PageLoadsTable ==
    ASSUME PageLoads
    PROVE  \E k \in 0 .. MAX_FILES : \E name \in [0 .. k - 1 -> {n \in Name : stored[n] # none}] :
             /\ \A i, j \in 0 .. k - 1 : i # j => name[i] # name[j]
             /\ entries' = [e \in Entry |-> IF e < k THEN File(name[e], stored[name[e]])
                                                     ELSE entries[e]]
             /\ stale' = {n \in Name : stored[n] # none} \ {name[i] : i \in 0 .. k - 1}
<1>1. Cardinality({n \in Name : stored[n] # none}) \in Nat
  BY FS_Subset, FS_CardinalityType, FileAssumption DEF FileAssumption
<1>2. \A c \in Nat : \A k \in 0 .. Smaller(MAX_FILES, c) : k \in 0 .. MAX_FILES
  BY FileAssumption DEF Smaller, FileAssumption
<1>3. \E k \in 0 .. MAX_FILES : Preloaded(k)
  BY <1>1, <1>2 DEF PageLoads
<1>. QED  BY <1>3 DEF Preloaded

LEMMA PageTypes ==
    TypeOK /\ (RequestSettles \/ RequestFails \/ PageCloses \/ PageLoads) => TypeOK'
<1>. SUFFICES ASSUME TypeOK, RequestSettles \/ RequestFails \/ PageCloses \/ PageLoads
              PROVE TypeOK'
  OBVIOUS
<1>1. CASE RequestSettles
  <2>1. /\ Head(pending).name \in Name /\ Head(pending).data \in Bytes \cup {none}
        /\ Tail(pending) \in Seq(Requests)
    BY <1>1, SettledTypes DEF RequestSettles, Requests
  <2>. QED  BY <1>1, <2>1 DEF RequestSettles, TypeOK, Requests
<1>2. CASE RequestFails
  <2>1. Head(pending).name \in Name /\ Tail(pending) \in Seq(Requests)
    BY <1>2, SettledTypes DEF RequestFails, Requests
  <2>. QED  BY <1>2, <2>1 DEF RequestFails, TypeOK, Requests
<1>3. CASE PageCloses
  <2>1. <<>> \in Seq([name : Name, data : Bytes \cup {none}])
    BY EmptySeq
  <2>. QED  BY <1>3, <2>1 DEF PageCloses, TypeOK
<1>4. CASE PageLoads
  <2>1. PICK k \in 0 .. MAX_FILES : \E name \in [0 .. k - 1 -> {n \in Name : stored[n] # none}] :
          /\ entries' = [e \in Entry |-> IF e < k THEN File(name[e], stored[name[e]])
                                                  ELSE entries[e]]
          /\ stale' = {n \in Name : stored[n] # none} \ {name[i] : i \in 0 .. k - 1}
    BY <1>4, PageLoadsTable
  <2>2. PICK name \in [0 .. k - 1 -> {n \in Name : stored[n] # none}] :
          /\ entries' = [e \in Entry |-> IF e < k THEN File(name[e], stored[name[e]])
                                                  ELSE entries[e]]
          /\ stale' = {n \in Name : stored[n] # none} \ {name[i] : i \in 0 .. k - 1}
    BY <2>1
  <2>3. ASSUME NEW e \in Entry, e < k PROVE File(name[e], stored[name[e]]) \in FileType
    <3>1. e \in 0 .. k - 1
      BY <2>3 DEF Entry
    <3>2. name[e] \in Name /\ stored[name[e]] \in Bytes
      BY <3>1, <2>2 DEF TypeOK
    <3>. QED  BY <3>2, NewFileType
  <2>4. entries' \in [Entry -> {Unused} \cup FileType]
    BY <2>2, <2>3 DEF TypeOK
  <2>5. stale' \subseteq Name
    BY <2>2
  <2>. QED  BY <1>4, <2>4, <2>5 DEF PageLoads, TypeOK
<1>. QED  BY <1>1, <1>2, <1>3, <1>4

---------------------------------------------------------------------------
(* A name means one file.                                                  *)

Distinct ==
    \A e, f \in Entry :
      entries[e].used /\ entries[f].used /\ entries[e].name = entries[f].name
        => e = f \/ entries[e].name \in misused

HandlesHaveFiles ==
    \A h \in Handle :
      handles[h].open => \/ entries[handles[h].entry].used
                         \/ entries[handles[h].entry].name \in misused

\* Entries that keep their names, and handles that are at most closed.
LEMMA SameNames ==
    ASSUME TableSound, misused \subseteq misused',
           \A e \in Entry : /\ entries'[e].used <=> entries[e].used
                            /\ entries'[e].name = entries[e].name,
           \A h \in Handle : handles'[h].open =>
              \/ handles[h].open /\ handles'[h].entry = handles[h].entry
              \/ entries[handles'[h].entry].used /\ handles'[h].entry \in Entry,
           \A h \in Handle : handles[h].open => handles[h].entry \in Entry
    PROVE  TableSound'
<1>1. Distinct'
  BY DEF Distinct, TableSound
<1>2. HandlesHaveFiles'
  BY DEF HandlesHaveFiles, TableSound
<1>. QED  BY <1>1, <1>2 DEF TableSound, Distinct, HandlesHaveFiles

LEMMA HandleCallTable == TypeOK /\ TableSound /\ HandleCall => TableSound'
<1>. SUFFICES ASSUME TypeOK, TableSound, HandleCall PROVE TableSound'
  OBVIOUS
<1>1. \A h \in Handle : handles[h].open => handles[h].entry \in Entry
  BY HandleTypes
<1>2. PICK h \in Handle :
        /\ handles' = [handles EXCEPT ![h] = handles'[h]]
        /\ handles'[h] = Closed \/ handles'[h].entry = handles[h].entry
        /\ handles[h].open /\ misused \subseteq misused'
        /\ \A e \in Entry : /\ entries'[e].used <=> entries[e].used
                            /\ entries'[e].name = entries[e].name
  <2>1. ASSUME NEW h \in Handle, fs_file_close(h)
        PROVE  /\ handles' = [handles EXCEPT ![h] = handles'[h]]
               /\ handles'[h] = Closed /\ handles[h].open
               /\ entries' = entries /\ misused' = misused
    BY <2>1 DEF fs_file_close, TypeOK
  <2>2. ASSUME NEW h \in Handle, NEW pos, MovesTo(h, pos)
        PROVE  /\ handles' = [handles EXCEPT ![h] = handles'[h]]
               /\ handles'[h].entry = handles[h].entry /\ handles[h].open
    <3>1. handles[h] \in HandleType /\ handles \in [Handle -> {Closed} \cup HandleType]
      BY <2>2, FieldTypes DEF MovesTo, TypeOK
    <3>. QED  BY <2>2, <3>1 DEF MovesTo, HandleType
  <2>3. ASSUME NEW h \in Handle, fs_file_read(h) \/ fs_file_seek(h)
        PROVE  entries' = entries /\ misused' = misused /\ \E pos : MovesTo(h, pos)
    BY <2>3 DEF fs_file_read, fs_file_seek
  <2>4. ASSUME NEW h \in Handle, NEW d \in Data, fs_file_write(h, d)
        PROVE  /\ \E pos : MovesTo(h, pos) /\ misused \subseteq misused'
               /\ \A e \in Entry : /\ entries'[e].used <=> entries[e].used
                                   /\ entries'[e].name = entries[e].name
    <3>1. handles[h].entry \in Entry /\ entries[handles[h].entry] \in FileType
      BY <2>4, HandleTypes DEF fs_file_write, MovesTo
    <3>2. PICK data, size :
            entries' = [entries EXCEPT ![handles[h].entry].data = data,
                                       ![handles[h].entry].size = size]
      BY <2>4 DEF fs_file_write
    <3>3. misused \subseteq misused'
      BY <2>4, WritesThroughTypes DEF fs_file_write, MovesTo
    <3>. QED  BY <2>4, <3>1, <3>2, <3>3 DEF fs_file_write, FileType, TypeOK
  <2>5. ASSUME NEW h \in Handle, NEW size, fs_file_truncate(h, size)
        PROVE  /\ handles' = handles /\ handles[h].open /\ misused \subseteq misused'
               /\ \A e \in Entry : /\ entries'[e].used <=> entries[e].used
                                   /\ entries'[e].name = entries[e].name
    <3>1. handles[h].entry \in Entry /\ entries[handles[h].entry] \in FileType
      BY <2>5, HandleTypes DEF fs_file_truncate
    <3>2. misused \subseteq misused'
      BY <2>5, WritesThroughTypes DEF fs_file_truncate
    <3>. QED  BY <2>5, <3>1, <3>2 DEF fs_file_truncate, FileType, TypeOK
  <2>. QED  BY <2>1, <2>2, <2>3, <2>4, <2>5 DEF HandleCall, TypeOK
<1>3. \A g \in Handle : handles'[g].open =>
        handles[g].open /\ handles'[g].entry = handles[g].entry
  <2>1. ~Closed.open
    BY DEF Closed
  <2>. QED  BY <1>2, <2>1 DEF TypeOK
<1>. QED  BY <1>1, <1>2, <1>3, SameNames

LEMMA PathCallTable == TypeOK /\ TableSound /\ PathCall => TableSound'
<1>. SUFFICES ASSUME TypeOK, TableSound, PathCall PROVE TableSound'
  OBVIOUS
<1>0. /\ \A h \in Handle : handles[h].open => handles[h].entry \in Entry
      /\ \A e \in Entry : entries[e].used \in BOOLEAN
      /\ ~Unused.used /\ ~Closed.open
  BY HandleTypes, FieldTypes DEF Unused, Closed
<1>1. ASSUME NEW n \in Name, NEW flags \in Flags, fs_file_open(n, flags) PROVE TableSound'
  <2>1. PICK h \in Handle, e \in Entry :
          /\ Opened(h, e, flags)
          /\ \/ /\ find_entry(e, n)
                /\ IF {"CREAT", "WRONLY"} \subseteq flags
                   THEN entries' = [entries EXCEPT ![e].size = 0]
                   ELSE UNCHANGED entries
             \/ /\ ~Exists(n) /\ alloc_entry(e)
                /\ entries' = [entries EXCEPT ![e] = File(n, <<>>)]
    BY <1>1 DEF fs_file_open
  <2>0. misused' = misused
    BY <1>1 DEF fs_file_open
  <2>2. \A g \in Handle : handles'[g].open =>
          \/ handles[g].open /\ handles'[g].entry = handles[g].entry
          \/ handles'[g].entry = e
    BY <2>1 DEF Opened, TypeOK
  <2>3. CASE entries' = [entries EXCEPT ![e].size = 0] /\ find_entry(e, n)
    <3>1. entries[e] \in FileType
      BY <2>3, FieldTypes DEF find_entry, Holds
    <3>2. \A f \in Entry : /\ entries'[f].used <=> entries[f].used
                           /\ entries'[f].name = entries[f].name
      BY <2>3, <3>1 DEF FileType, TypeOK
    <3>. QED  BY <1>0, <2>0, <2>2, <2>3, <3>2, SameNames DEF find_entry, Holds
  <2>4. CASE UNCHANGED entries /\ find_entry(e, n)
    BY <1>0, <2>0, <2>2, <2>4, SameNames DEF find_entry, Holds
  <2>5. CASE ~Exists(n) /\ entries' = [entries EXCEPT ![e] = File(n, <<>>)]
    <3>1. /\ File(n, <<>>).used = TRUE /\ File(n, <<>>).name = n
      BY DEF File
    <3>2. entries'[e] = File(n, <<>>) /\ \A f \in Entry \ {e} : entries'[f] = entries[f]
      BY <2>5 DEF TypeOK
    <3>3. \A f \in Entry : ~(entries[f].used /\ entries[f].name = n)
      BY <2>5 DEF Exists, Holds
    <3>4. Distinct'
      BY <2>0, <3>1, <3>2, <3>3 DEF Distinct, TableSound
    <3>5. HandlesHaveFiles'
      BY <1>0, <2>0, <2>2, <3>1, <3>2 DEF HandlesHaveFiles, TableSound
    <3>. QED  BY <3>4, <3>5 DEF TableSound, Distinct, HandlesHaveFiles
  <2>. QED  BY <2>1, <2>3, <2>4, <2>5
<1>2. ASSUME NEW n \in Name, fs_remove(n) PROVE TableSound'
  <2>1. PICK e \in Entry : /\ entries[e].used /\ entries[e].name = n
                           /\ entries' = [entries EXCEPT ![e] = Freed(e)]
                           /\ Misuses(IF IsOpen(e) THEN {n} ELSE {}) /\ handles' = handles
    BY <1>2 DEF fs_remove, find_entry, Holds
  <2>2. entries'[e] = Freed(e) /\ \A f \in Entry \ {e} : entries'[f] = entries[f]
    BY <2>1 DEF TypeOK
  <2>3. ~Freed(e).used /\ (IsOpen(e) => Freed(e).name = n)
    BY <2>1, FreedEntry
  <2>4. misused \subseteq misused' /\ (IsOpen(e) => n \in misused')
    BY <2>1 DEF Misuses
  <2>5. Distinct'
    BY <2>2, <2>3, <2>4 DEF Distinct, TableSound
  <2>6. HandlesHaveFiles'
    BY <1>0, <2>1, <2>2, <2>3, <2>4 DEF HandlesHaveFiles, TableSound, IsOpen
  <2>. QED  BY <2>5, <2>6 DEF TableSound, Distinct, HandlesHaveFiles
<1>3. ASSUME NEW old \in Name, NEW new \in Name, fs_rename(old, new) PROVE TableSound'
  <2>1. PICK e \in Entry :
          /\ find_entry(e, old)
          /\ entries' = [entries EXCEPT ![e].name = new] /\ handles' = handles
          /\ Misuses(IF \E f \in Entry \ {e} : Holds(f, new) THEN {new} ELSE {})
    BY <1>3 DEF fs_rename, Renamed
  <2>2. /\ entries'[e].used /\ entries'[e].name = new
        /\ \A f \in Entry \ {e} : entries'[f] = entries[f]
    <3>1. entries[e] \in FileType /\ entries[e].used
      BY <2>1, FieldTypes DEF find_entry, Holds
    <3>. QED  BY <2>1, <3>1 DEF FileType, TypeOK
  <2>3. /\ misused \subseteq misused'
        /\ \A f \in Entry \ {e} : entries[f].used /\ entries[f].name = new => new \in misused'
    BY <2>1 DEF Misuses, Holds
  <2>4. Distinct'
    BY <2>2, <2>3 DEF Distinct, TableSound
  <2>5. HandlesHaveFiles'
    BY <1>0, <2>1, <2>2, <2>3 DEF HandlesHaveFiles, TableSound
  <2>. QED  BY <2>4, <2>5 DEF TableSound, Distinct, HandlesHaveFiles
<1>4. ASSUME fs_reformat PROVE TableSound'
  <2>1. /\ entries' = [e \in Entry |-> IF e \in InUse THEN Freed(e) ELSE entries[e]]
        /\ Misuses({entries[e].name : e \in {f \in InUse : IsOpen(f)}})
        /\ handles' = handles
    BY <1>4 DEF fs_reformat
  <2>2. ASSUME NEW e \in Entry
        PROVE  /\ ~entries'[e].used
               /\ IsOpen(e) => entries'[e].name = entries[e].name
               /\ IsOpen(e) /\ entries[e].used => entries[e].name \in misused'
    <3>1. CASE entries[e].used
      BY <2>1, <3>1, FreedEntry DEF InUse, Misuses
    <3>2. CASE ~entries[e].used
      BY <2>1, <3>2 DEF InUse
    <3>. QED  BY <3>1, <3>2
  <2>3. misused \subseteq misused'
    BY <2>1 DEF Misuses
  <2>4. Distinct'
    BY <2>2 DEF Distinct
  <2>5. HandlesHaveFiles'
    BY <1>0, <2>1, <2>2, <2>3 DEF HandlesHaveFiles, TableSound, IsOpen
  <2>. QED  BY <2>4, <2>5 DEF TableSound, Distinct, HandlesHaveFiles
<1>. QED  BY <1>1, <1>2, <1>3, <1>4 DEF PathCall

LEMMA PageTable ==
    TypeOK /\ TableSound /\ NothingBeforeLoad
      /\ (RequestSettles \/ RequestFails \/ PageCloses \/ PageLoads) => TableSound'
<1>. SUFFICES ASSUME TypeOK, TableSound, NothingBeforeLoad,
                     RequestSettles \/ RequestFails \/ PageCloses \/ PageLoads
              PROVE  TableSound'
  OBVIOUS
<1>1. CASE RequestSettles \/ RequestFails
  BY <1>1 DEF RequestSettles, RequestFails, TableSound
<1>2. CASE PageCloses
  <2>1. ~Unused.used /\ ~Closed.open
    BY DEF Unused, Closed
  <2>. QED  BY <1>2, <2>1 DEF PageCloses, TableSound
<1>3. CASE PageLoads
  <2>1. PICK k \in 0 .. MAX_FILES : \E name \in [0 .. k - 1 -> {n \in Name : stored[n] # none}] :
          /\ \A i, j \in 0 .. k - 1 : i # j => name[i] # name[j]
          /\ entries' = [e \in Entry |-> IF e < k THEN File(name[e], stored[name[e]])
                                                  ELSE entries[e]]
    BY <1>3, PageLoadsTable
  <2>2. PICK name \in [0 .. k - 1 -> {n \in Name : stored[n] # none}] :
          /\ \A i, j \in 0 .. k - 1 : i # j => name[i] # name[j]
          /\ entries' = [e \in Entry |-> IF e < k THEN File(name[e], stored[name[e]])
                                                  ELSE entries[e]]
    BY <2>1
  <2>3. \A h \in Handle : ~handles'[h].open
    BY <1>3 DEF PageLoads, NothingBeforeLoad
  <2>4. ASSUME NEW e \in Entry, entries'[e].used
        PROVE  e \in 0 .. k - 1 /\ entries'[e].name = name[e]
    <3>1. e < k
      BY <1>3, <2>2, <2>4 DEF PageLoads, NothingBeforeLoad
    <3>2. entries'[e].name = name[e]
      BY <2>2, <3>1 DEF File
    <3>. QED  BY <3>1, <3>2 DEF Entry
  <2>. QED  BY <2>2, <2>3, <2>4 DEF TableSound
<1>. QED  BY <1>1, <1>2, <1>3

LEMMA LoadedFirst == TypeOK /\ NothingBeforeLoad /\ [Next]_vars => NothingBeforeLoad'
<1>. SUFFICES ASSUME TypeOK, NothingBeforeLoad, [Next]_vars, ~loaded' PROVE NothingBeforeLoad'
  BY DEF NothingBeforeLoad
<1>1. CASE HandleCall \/ PathCall
  <2>1. loaded' = loaded
    BY <1>1 DEF HandleCall, PathCall, fs_file_close, fs_file_read, fs_file_seek,
                fs_file_write, fs_file_truncate, fs_file_open, fs_remove, fs_rename,
                fs_reformat, Request, dbVars
  <2>2. loaded
    BY <1>1 DEF HandleCall, PathCall, fs_file_close, fs_file_read, fs_file_seek,
                fs_file_write, fs_file_truncate, fs_file_open, fs_remove, fs_rename,
                fs_reformat, MovesTo
  <2>. QED  BY <2>1, <2>2
<1>2. CASE RequestSettles \/ RequestFails
  <2>1. ~loaded /\ pending # <<>>
    BY <1>2 DEF RequestSettles, RequestFails
  <2>. QED  BY <2>1 DEF NothingBeforeLoad
<1>3. CASE PageCloses
  <2>1. ~Unused.used /\ ~Closed.open
    BY DEF Unused, Closed
  <2>. QED  BY <1>3, <2>1 DEF PageCloses, NothingBeforeLoad
<1>4. CASE PageLoads
  BY <1>4 DEF PageLoads
<1>5. CASE UNCHANGED vars
  BY <1>5 DEF vars, NothingBeforeLoad
<1>. QED  BY <1>1, <1>2, <1>3, <1>4, <1>5 DEF Next

---------------------------------------------------------------------------
(* The stored copies follow.                                               *)

\* A step without requests: who writes goes on writing, and a file that
\* changes is being written.
LEMMA QuietStep ==
    ASSUME StoredFollows, UNCHANGED <<dbVars, pending>>, misused \subseteq misused',
           \A n \in Name \ misused' : BeingWritten(n) => BeingWritten(n)',
           \A n \in Name \ misused' :
             \/ BeingWritten(n)'
             \/ \A e \in Entry : Holds(e, n) \/ Holds(e, n)' => entries'[e] = entries[e]
    PROVE  StoredFollows'
<1>1. ASSUME loaded', NEW n \in Name \ misused', ~BeingWritten(n)' PROVE Follows(n)'
  <2>1. Follows(n)
    BY <1>1 DEF StoredFollows, dbVars
  <2>2. \A e \in Entry : Holds(e, n) \/ Holds(e, n)' => entries'[e] = entries[e]
    BY <1>1
  <2>3. \A data : InMemory(n, data)' <=> InMemory(n, data)
    BY <2>2, SameInMemory
  <2>. QED  BY <2>1, <2>3, FollowsUnchanged
<1>. QED  BY <1>1 DEF StoredFollows

\* A step with requests: each name has its own, or is left alone.
LEMMA RequestStep ==
    ASSUME TypeOK, StoredFollows, misused \subseteq misused',
           NEW s \in Seq(Requests), Request(s),
           \A n \in Name \ misused' :
             \/ \E k \in 1 .. Len(s) :
                   /\ s[k].name = n
                   /\ \A j \in 1 .. Len(s) : j > k => s[j].name # n
                   /\ InMemory(n, s[k].data)'
             \/ /\ \A k \in 1 .. Len(s) : s[k].name # n
                /\ BeingWritten(n) => BeingWritten(n)'
                /\ \A e \in Entry : Holds(e, n) \/ Holds(e, n)' => entries'[e] = entries[e]
    PROVE  StoredFollows'
<1>1. ASSUME loaded', NEW n \in Name \ misused', ~BeingWritten(n)' PROVE Follows(n)'
  <2>1. CASE \E k \in 1 .. Len(s) :
                /\ s[k].name = n
                /\ \A j \in 1 .. Len(s) : j > k => s[j].name # n
                /\ InMemory(n, s[k].data)'
    BY <2>1, FollowsOwnRequest
  <2>2. CASE /\ \A k \in 1 .. Len(s) : s[k].name # n
             /\ BeingWritten(n) => BeingWritten(n)'
             /\ \A e \in Entry : Holds(e, n) \/ Holds(e, n)' => entries'[e] = entries[e]
    <3>1. loaded
      BY <1>1, RequestTypes
    <3>2. Follows(n)
      BY <1>1, <2>2, <3>1 DEF StoredFollows
    <3>3. \A data : InMemory(n, data)' <=> InMemory(n, data)
      BY <2>2, SameInMemory
    <3>. QED  BY <2>2, <3>2, <3>3, FollowsOtherRequests
  <2>. QED  BY <1>1, <2>1, <2>2
<1>. QED  BY <1>1 DEF StoredFollows

\* A handle that moves or writes stays the writer of its file.
LEMMA WriterStays ==
    ASSUME NEW n,
           \A h \in Handle : handles[h].open =>
             /\ handles'[h].open /\ handles'[h].entry = handles[h].entry
             /\ handles'[h].flags = handles[h].flags
             /\ entries'[handles[h].entry].name = entries[handles[h].entry].name,
           BeingWritten(n)
    PROVE  BeingWritten(n)'
BY DEF BeingWritten

LEMMA MovesToHandles ==
    ASSUME TypeOK, NEW h \in Handle, NEW pos, MovesTo(h, pos)
    PROVE  /\ handles[h].open
           /\ \A g \in Handle : handles[g].open =>
                /\ handles'[g].open /\ handles'[g].entry = handles[g].entry
                /\ handles'[g].flags = handles[g].flags
<1>1. handles[h] \in HandleType /\ handles \in [Handle -> {Closed} \cup HandleType]
  BY FieldTypes DEF MovesTo, TypeOK
<1>2. /\ handles'[h].open = handles[h].open /\ handles'[h].entry = handles[h].entry
      /\ handles'[h].flags = handles[h].flags
  BY <1>1 DEF MovesTo, HandleType
<1>3. \A g \in Handle \ {h} : handles'[g] = handles[g]
  BY <1>1 DEF MovesTo
<1>. QED  BY <1>2, <1>3 DEF MovesTo

\* A step of a writer that touches its own file only.
LEMMA WriterStep ==
    ASSUME TypeOK, TableSound, StoredFollows, UNCHANGED <<dbVars, pending>>,
           NEW h \in Handle, handles[h].open, WritesThrough(h),
           \A g \in Handle : handles[g].open =>
             /\ handles'[g].open /\ handles'[g].entry = handles[g].entry
             /\ handles'[g].flags = handles[g].flags,
           \A e \in Entry : entries'[e].name = entries[e].name,
           \A e \in Entry \ {handles[h].entry} : entries'[e] = entries[e]
    PROVE  StoredFollows'
<1>1. \A g \in Handle : handles[g].open => handles[g].entry \in Entry
  BY HandleTypes
<1>2. ASSUME NEW n \in Name, BeingWritten(n) PROVE BeingWritten(n)'
  BY <1>1, <1>2, WriterStays
<1>3. PICK m \in Name : m = entries[handles[h].entry].name
  BY HandleTypes
<1>4. misused \subseteq misused' /\ ("WRONLY" \in handles[h].flags \/ m \in misused')
  BY <1>3, WritesThroughTypes
<1>5. ASSUME m \notin misused' PROVE BeingWritten(m)'
  <2>1. BeingWritten(m)
    BY <1>3, <1>4, <1>5 DEF BeingWritten
  <2>. QED  BY <1>2, <2>1
<1>6. ASSUME NEW n \in Name, n # m
      PROVE  \A e \in Entry : Holds(e, n) \/ Holds(e, n)' => entries'[e] = entries[e]
  BY <1>3, <1>6 DEF Holds
<1>. QED  BY <1>2, <1>4, <1>5, <1>6, QuietStep

LEMMA HandleCallFollows ==
    TypeOK /\ TableSound /\ StoredFollows /\ HandleCall => StoredFollows'
<1>. SUFFICES ASSUME TypeOK, TableSound, StoredFollows, HandleCall PROVE StoredFollows'
  OBVIOUS
<1>1. ASSUME NEW h \in Handle, fs_file_close(h) PROVE StoredFollows'
  <2>1. PICK e \in Entry, m \in Name :
          /\ e = handles[h].entry /\ m = entries[e].name
          /\ entries[e].used \/ m \in misused
          /\ handles[h].flags \in Flags /\ misused' = misused
    BY <1>1, HandleTypes DEF fs_file_close
  <2>2. Request(<<Put(m, Content(e))>>) /\ entries' = entries /\ handles' = [handles EXCEPT ![h] = Closed]
    <3>1. handles[h].flags \cap {"WRONLY", "RDONLY"} # {}
      BY <2>1, FileAssumption DEF FileAssumption
    <3>. QED  BY <1>1, <2>1, <3>1 DEF fs_file_close
  <2>3. PICK r \in Requests : r = Put(m, Content(e))
    BY RequestKinds
  <2>4. PICK s \in Seq(Requests) : s = <<r>> /\ Len(s) = 1 /\ s[1] = r
    BY <2>3, OneRequest
  <2>5. r.name = m /\ r.data = Content(e) /\ r.data # none
    BY <2>3, ContentType, FileAssumption DEF Put, FileAssumption, Bytes
  <2>6. ASSUME m \notin misused' PROVE InMemory(m, r.data)'
    <3>1. Holds(e, m)'
      BY <2>1, <2>2, <2>6 DEF Holds
    <3>2. Content(e)' = r.data
      BY <2>2, <2>5 DEF Content, Byte
    <3>. QED  BY <2>5, <3>1, <3>2 DEF InMemory
  <2>7. ASSUME NEW n \in Name, n # m, BeingWritten(n) PROVE BeingWritten(n)'
    <3>1. PICK g \in Handle : /\ handles[g].open
                              /\ handles[g].flags \cap {"WRONLY", "CREAT"} # {}
                              /\ entries[handles[g].entry].name = n
      BY <2>7 DEF BeingWritten
    <3>2. g # h
      BY <2>1, <2>7, <3>1
    <3>3. handles'[g] = handles[g]
      BY <2>2, <3>2 DEF TypeOK
    <3>. QED  BY <2>2, <3>1, <3>3 DEF BeingWritten
  <2>8. ASSUME NEW n \in Name \ misused'
        PROVE  \/ \E k \in 1 .. Len(s) :
                     /\ s[k].name = n
                     /\ \A j \in 1 .. Len(s) : j > k => s[j].name # n
                     /\ InMemory(n, s[k].data)'
               \/ /\ \A k \in 1 .. Len(s) : s[k].name # n
                  /\ BeingWritten(n) => BeingWritten(n)'
                  /\ \A f \in Entry : Holds(f, n) \/ Holds(f, n)' => entries'[f] = entries[f]
    <3>1. CASE n = m
      <4>1. /\ 1 \in 1 .. Len(s) /\ s[1].name = n
            /\ \A j \in 1 .. Len(s) : ~(j > 1)
        BY <2>4, <2>5, <3>1
      <4>2. InMemory(n, s[1].data)'
        BY <2>4, <2>6, <2>8, <3>1
      <4>. QED  BY <4>1, <4>2
    <3>2. CASE n # m
      BY <2>2, <2>4, <2>5, <2>7, <3>2
    <3>. QED  BY <3>1, <3>2
  <2>9. Request(s)
    BY <2>2, <2>3, <2>4
  <2>. QED  BY <2>1, <2>8, <2>9, RequestStep
<1>2. ASSUME NEW h \in Handle, fs_file_read(h) \/ fs_file_seek(h) PROVE StoredFollows'
  <2>1. PICK pos : MovesTo(h, pos)
    BY <1>2 DEF fs_file_read, fs_file_seek
  <2>2. entries' = entries /\ UNCHANGED <<dbVars, pending, misused>>
    BY <1>2 DEF fs_file_read, fs_file_seek
  <2>3. ASSUME NEW n \in Name, BeingWritten(n) PROVE BeingWritten(n)'
    BY <2>1, <2>2, <2>3, MovesToHandles, WriterStays
  <2>. QED  BY <2>2, <2>3, QuietStep
<1>3. ASSUME NEW h \in Handle, NEW d \in Data, fs_file_write(h, d) PROVE StoredFollows'
  <2>1. PICK pos : MovesTo(h, pos)
    BY <1>3 DEF fs_file_write
  <2>2. handles[h].entry \in Entry /\ entries[handles[h].entry] \in FileType
    BY <2>1, HandleTypes DEF MovesTo
  <2>3. PICK data, size :
          entries' = [entries EXCEPT ![handles[h].entry].data = data,
                                     ![handles[h].entry].size = size]
    BY <1>3 DEF fs_file_write
  <2>4. /\ \A e \in Entry : entries'[e].name = entries[e].name
        /\ \A e \in Entry \ {handles[h].entry} : entries'[e] = entries[e]
    BY <2>2, <2>3 DEF FileType, TypeOK
  <2>5. UNCHANGED <<dbVars, pending>> /\ WritesThrough(h)
    BY <1>3 DEF fs_file_write
  <2>. QED  BY <2>1, <2>4, <2>5, MovesToHandles, WriterStep
<1>4. ASSUME NEW h \in Handle, NEW size \in 0 .. MaxSize, fs_file_truncate(h, size)
      PROVE  StoredFollows'
  <2>1. handles[h].open /\ WritesThrough(h) /\ UNCHANGED <<handles, dbVars, pending>>
    BY <1>4 DEF fs_file_truncate
  <2>2. handles[h].entry \in Entry /\ entries[handles[h].entry] \in FileType
    BY <2>1, HandleTypes
  <2>3. /\ \A e \in Entry : entries'[e].name = entries[e].name
        /\ \A e \in Entry \ {handles[h].entry} : entries'[e] = entries[e]
    BY <1>4, <2>2 DEF fs_file_truncate, FileType, TypeOK
  <2>. QED  BY <2>1, <2>3, WriterStep
<1>. QED  BY <1>1, <1>2, <1>3, <1>4 DEF HandleCall

LEMMA PathCallFollows ==
    TypeOK /\ TableSound /\ StoredFollows /\ PathCall => StoredFollows'
<1>. SUFFICES ASSUME TypeOK, TableSound, StoredFollows, PathCall PROVE StoredFollows'
  OBVIOUS
<1>0. /\ \A h \in Handle : handles[h].open => handles[h].entry \in Entry
      /\ ~Unused.used
  BY HandleTypes DEF Unused
<1>1. ASSUME NEW n \in Name, NEW flags \in Flags, fs_file_open(n, flags)
      PROVE  StoredFollows'
  <2>1. PICK h \in Handle, e \in Entry :
          /\ alloc_handle(h)
          /\ Opened(h, e, flags)
          /\ \/ /\ find_entry(e, n)
                /\ IF {"CREAT", "WRONLY"} \subseteq flags
                   THEN entries' = [entries EXCEPT ![e].size = 0]
                   ELSE UNCHANGED entries
             \/ /\ ~Exists(n) /\ "CREAT" \in flags
                /\ alloc_entry(e)
                /\ entries' = [entries EXCEPT ![e] = File(n, <<>>)]
    BY <1>1 DEF fs_file_open
  <2>2. UNCHANGED <<dbVars, pending, misused>>
    BY <1>1 DEF fs_file_open
  <2>3. /\ \A g \in Handle : handles[g].open => handles'[g] = handles[g]
        /\ handles'[h].open /\ handles'[h].entry = e /\ handles'[h].flags = flags
    BY <2>1 DEF Opened, alloc_handle, TypeOK
  <2>4. CASE UNCHANGED entries
    <3>1. ASSUME NEW m \in Name, BeingWritten(m) PROVE BeingWritten(m)'
      BY <2>3, <2>4, <3>1 DEF BeingWritten
    <3>. QED  BY <2>2, <2>4, <3>1, QuietStep
  <2>5. ASSUME "CREAT" \in flags,
               entries'[e].name = n,
               \A f \in Entry \ {e} : entries'[f] = entries[f],
               entries[e].used => entries[e].name = n
        PROVE  StoredFollows'
    <3>1. BeingWritten(n)'
      BY <2>3, <2>5 DEF BeingWritten
    <3>2. ASSUME NEW m \in Name \ misused', m # n, BeingWritten(m) PROVE BeingWritten(m)'
      <4>1. PICK g \in Handle :
              /\ handles[g].open
              /\ handles[g].flags \cap {"WRONLY", "CREAT"} # {}
              /\ entries[handles[g].entry].name = m
        BY <3>2 DEF BeingWritten
      <4>2. entries[handles[g].entry].used /\ handles[g].entry \in Entry
        BY <2>2, <3>2, <4>1, HandleTypes
      <4>3. handles[g].entry # e
        BY <2>5, <3>2, <4>1, <4>2
      <4>. QED  BY <2>3, <2>5, <4>1, <4>2, <4>3 DEF BeingWritten
    <3>3. ASSUME NEW m \in Name, m # n
          PROVE  \A f \in Entry : Holds(f, m) \/ Holds(f, m)' => entries'[f] = entries[f]
      BY <2>5, <3>3 DEF Holds
    <3>. QED  BY <2>2, <3>1, <3>2, <3>3, QuietStep
  <2>6. CASE /\ find_entry(e, n) /\ {"CREAT", "WRONLY"} \subseteq flags
             /\ entries' = [entries EXCEPT ![e].size = 0]
    <3>1. entries[e] \in FileType /\ entries[e].name = n
      BY <2>6, FieldTypes DEF find_entry, Holds
    <3>2. /\ entries'[e].name = n
          /\ \A f \in Entry \ {e} : entries'[f] = entries[f]
      BY <2>6, <3>1 DEF FileType, TypeOK
    <3>. QED  BY <2>5, <2>6, <3>1, <3>2
  <2>7. CASE /\ ~Exists(n) /\ "CREAT" \in flags /\ alloc_entry(e)
             /\ entries' = [entries EXCEPT ![e] = File(n, <<>>)]
    <3>1. File(n, <<>>).name = n
      BY DEF File
    <3>2. /\ entries'[e].name = n /\ ~entries[e].used
          /\ \A f \in Entry \ {e} : entries'[f] = entries[f]
      BY <2>7, <3>1 DEF TypeOK, alloc_entry
    <3>. QED  BY <2>5, <2>7, <3>2
  <2>. QED  BY <2>1, <2>4, <2>6, <2>7
<1>2. ASSUME NEW n \in Name, fs_remove(n) PROVE StoredFollows'
  <2>1. PICK e \in Entry :
          /\ entries[e].used /\ entries[e].name = n
          /\ entries' = [entries EXCEPT ![e] = Freed(e)]
          /\ Misuses(IF IsOpen(e) THEN {n} ELSE {})
    BY <1>2 DEF fs_remove, find_entry, Holds
  <2>2. Request(<<Delete(n)>>) /\ handles' = handles
    BY <1>2 DEF fs_remove
  <2>3. PICK s \in Seq(Requests) : s = <<Delete(n)>> /\ Len(s) = 1 /\ s[1] = Delete(n)
    BY RequestKinds, OneRequest
  <2>4. s[1].name = n /\ s[1].data = none
    BY <2>3 DEF Delete
  <2>5. /\ entries'[e] = Freed(e) /\ \A f \in Entry \ {e} : entries'[f] = entries[f]
        /\ ~Freed(e).used /\ misused \subseteq misused'
    BY <2>1, FreedEntry DEF TypeOK, Misuses
  <2>6. ASSUME n \notin misused' PROVE InMemory(n, none)'
    <3>1. \A f \in Entry \ {e} : ~Holds(f, n)
      BY <2>1, <2>5, <2>6 DEF TableSound, Holds
    <3>. QED  BY <2>5, <3>1 DEF InMemory, Exists, Holds
  <2>7. ASSUME NEW m \in Name, m # n
        PROVE  /\ BeingWritten(m) => BeingWritten(m)'
               /\ \A f \in Entry : Holds(f, m) \/ Holds(f, m)' => entries'[f] = entries[f]
    <3>1. ASSUME BeingWritten(m) PROVE BeingWritten(m)'
      <4>1. PICK g \in Handle :
              /\ handles[g].open
              /\ handles[g].flags \cap {"WRONLY", "CREAT"} # {}
              /\ entries[handles[g].entry].name = m
        BY <3>1 DEF BeingWritten
      <4>2. handles[g].entry \in Entry \ {e}
        BY <1>0, <2>1, <2>7, <4>1
      <4>. QED  BY <2>2, <2>5, <4>1, <4>2 DEF BeingWritten
    <3>2. ~Holds(e, m) /\ ~Holds(e, m)'
      BY <2>1, <2>5, <2>7 DEF Holds
    <3>. QED  BY <2>5, <3>1, <3>2
  <2>8. Request(s)
    BY <2>2, <2>3
  <2>9. ASSUME NEW m \in Name \ misused'
        PROVE  \/ \E k \in 1 .. Len(s) :
                    /\ s[k].name = m
                    /\ \A j \in 1 .. Len(s) : j > k => s[j].name # m
                    /\ InMemory(m, s[k].data)'
               \/ /\ \A k \in 1 .. Len(s) : s[k].name # m
                  /\ BeingWritten(m) => BeingWritten(m)'
                  /\ \A f \in Entry : Holds(f, m) \/ Holds(f, m)' => entries'[f] = entries[f]
    <3>1. CASE m = n
      <4>1. 1 \in 1 .. Len(s) /\ \A j \in 1 .. Len(s) : ~(j > 1)
        BY <2>3
      <4>2. InMemory(m, s[1].data)'
        BY <2>4, <2>6, <2>9, <3>1
      <4>. QED  BY <2>4, <3>1, <4>1, <4>2
    <3>2. CASE m # n
      BY <2>3, <2>4, <2>7, <3>2
    <3>. QED  BY <3>1, <3>2
  <2>. QED  BY <2>5, <2>8, <2>9, RequestStep
<1>3. ASSUME NEW old \in Name, NEW new \in Name, fs_rename(old, new) PROVE StoredFollows'
  <2>1. PICK e \in Entry :
          /\ find_entry(e, old)
          /\ entries' = [entries EXCEPT ![e].name = new] /\ handles' = handles
          /\ Misuses(IF \E f \in Entry \ {e} : Holds(f, new) THEN {new} ELSE {})
          /\ Request(<<Delete(old), Put(new, Content(e))>>)
    BY <1>3 DEF fs_rename, Renamed
  <2>2. PICK q \in Requests, r \in Requests : q = Delete(old) /\ r = Put(new, Content(e))
    BY RequestKinds
  <2>3. PICK s \in Seq(Requests) : s = <<q, r>> /\ Len(s) = 2 /\ s[1] = q /\ s[2] = r
    BY TwoRequests
  <2>4. /\ q.name = old /\ q.data = none
        /\ r.name = new /\ r.data = Content(e) /\ r.data # none
    BY <2>2, ContentType, FileAssumption DEF Put, Delete, FileAssumption, Bytes
  <2>5. /\ entries[e].used /\ entries[e].name = old
        /\ entries'[e] = [entries[e] EXCEPT !.name = new]
        /\ \A f \in Entry \ {e} : entries'[f] = entries[f]
    BY <2>1 DEF find_entry, Holds, TypeOK
  <2>6. /\ entries'[e].used /\ entries'[e].name = new
        /\ entries'[e].data = entries[e].data /\ entries'[e].size = entries[e].size
    <3>1. entries[e] \in FileType
      BY <2>5, FieldTypes
    <3>. QED  BY <2>5, <3>1 DEF FileType
  <2>7. misused \subseteq misused'
    BY <2>1 DEF Misuses
  <2>9. ASSUME old # new, old \notin misused' PROVE InMemory(old, none)'
    <3>1. \A f \in Entry \ {e} : ~Holds(f, old)
      BY <2>5, <2>7, <2>9 DEF TableSound, Holds
    <3>2. \A f \in Entry : ~Holds(f, old)'
      <4>1. ~Holds(e, old)'
        BY <2>6, <2>9 DEF Holds
      <4>2. \A f \in Entry \ {e} : ~Holds(f, old)'
        BY <2>5, <3>1 DEF Holds
      <4>. QED  BY <4>1, <4>2
    <3>. QED  BY <3>2 DEF InMemory, Exists
  <2>10. InMemory(new, r.data)'
    <3>1. Content(e)' = r.data
      BY <2>4, <2>6 DEF Content, Byte
    <3>2. Holds(e, new)'
      BY <2>6 DEF Holds
    <3>. QED  BY <2>4, <3>1, <3>2 DEF InMemory
  <2>11. ASSUME NEW m \in Name, m # old, m # new
         PROVE  /\ BeingWritten(m) => BeingWritten(m)'
                /\ \A f \in Entry : Holds(f, m) \/ Holds(f, m)' => entries'[f] = entries[f]
    <3>1. BeingWritten(m) => BeingWritten(m)'
      BY <1>0, <2>1, <2>5, <2>11 DEF BeingWritten
    <3>2. ~Holds(e, m) /\ ~Holds(e, m)'
      BY <2>5, <2>6, <2>11 DEF Holds
    <3>. QED  BY <2>5, <3>1, <3>2
  <2>12. Request(s)
    BY <2>1, <2>2, <2>3
  <2>13. ASSUME NEW m \in Name \ misused'
         PROVE  \/ \E k \in 1 .. Len(s) :
                     /\ s[k].name = m
                     /\ \A j \in 1 .. Len(s) : j > k => s[j].name # m
                     /\ InMemory(m, s[k].data)'
                \/ /\ \A k \in 1 .. Len(s) : s[k].name # m
                   /\ BeingWritten(m) => BeingWritten(m)'
                   /\ \A f \in Entry : Holds(f, m) \/ Holds(f, m)' => entries'[f] = entries[f]
    <3>0. \A j \in 1 .. Len(s) : j = 1 \/ j = 2
      BY <2>3
    <3>1. CASE m = old /\ old # new
      <4>1. 1 \in 1 .. Len(s) /\ s[1].name = m
        BY <2>3, <2>4, <3>1
      <4>2. \A j \in 1 .. Len(s) : j > 1 => s[j].name # m
        BY <2>3, <2>4, <3>0, <3>1
      <4>3. InMemory(m, s[1].data)'
        BY <2>3, <2>4, <2>9, <2>13, <3>1
      <4>. QED  BY <4>1, <4>2, <4>3
    <3>2. CASE m = new
      <4>1. 2 \in 1 .. Len(s) /\ s[2].name = m
        BY <2>3, <2>4, <3>2
      <4>2. \A j \in 1 .. Len(s) : j > 2 => s[j].name # m
        BY <3>0
      <4>3. InMemory(m, s[2].data)'
        BY <2>3, <2>10, <3>2
      <4>. QED  BY <4>1, <4>2, <4>3
    <3>3. CASE m # old /\ m # new
      BY <2>3, <2>4, <2>11, <3>0, <3>3
    <3>. QED  BY <3>1, <3>2, <3>3
  <2>. QED  BY <2>7, <2>12, <2>13, RequestStep
<1>4. ASSUME fs_reformat PROVE StoredFollows'
  <2>1. PICK file \in [1 .. Cardinality(InUse) -> InUse] :
          /\ \A e \in InUse : \E i \in DOMAIN file : file[i] = e
          /\ \A i, j \in DOMAIN file : i < j => file[i] < file[j]
          /\ Request([i \in DOMAIN file |-> Delete(entries[file[i]].name)])
    BY <1>4 DEF fs_reformat
  <2>2. /\ entries' = [e \in Entry |-> IF e \in InUse THEN Freed(e) ELSE entries[e]]
        /\ handles' = handles /\ misused \subseteq misused'
    BY <1>4 DEF fs_reformat, Misuses
  <2>3. \A e \in InUse : e \in Entry /\ entries[e].used /\ entries[e].name \in Name
    BY FieldTypes DEF InUse, FileType
  <2>4. [i \in DOMAIN file |-> Delete(entries[file[i]].name)]
          \in [1 .. Cardinality(InUse) -> Requests]
    BY <2>3, RequestKinds
  <2>5. PICK s \in Seq(Requests) :
          /\ s = [i \in DOMAIN file |-> Delete(entries[file[i]].name)]
          /\ Len(s) = Cardinality(InUse)
    BY <2>4, InUseFinite, FunctionIsSeq
  <2>6. /\ DOMAIN file = 1 .. Len(s)
        /\ \A k \in 1 .. Len(s) : s[k].name = entries[file[k]].name /\ s[k].data = none
    BY <2>5 DEF Delete
  <2>7. Request(s)
    BY <2>1, <2>5
  <2>8. /\ \A e \in Entry : ~entries'[e].used
        /\ \A e \in Entry : ~entries[e].used => entries'[e] = entries[e]
    <3>1. \A e \in Entry : entries[e].used => ~Freed(e).used
      BY FreedEntry
    <3>. QED  BY <2>2, <3>1 DEF InUse
  <2>9. ASSUME NEW n \in Name \ misused'
        PROVE  \/ \E k \in 1 .. Len(s) :
                    /\ s[k].name = n
                    /\ \A j \in 1 .. Len(s) : j > k => s[j].name # n
                    /\ InMemory(n, s[k].data)'
               \/ /\ \A k \in 1 .. Len(s) : s[k].name # n
                  /\ BeingWritten(n) => BeingWritten(n)'
                  /\ \A e \in Entry : Holds(e, n) \/ Holds(e, n)' => entries'[e] = entries[e]
    <3>1. CASE \E e \in InUse : entries[e].name = n
      <4>1. PICK e \in InUse : entries[e].name = n
        BY <3>1
      <4>2. PICK k \in 1 .. Len(s) : file[k] = e
        BY <2>1, <2>6
      <4>3. ASSUME NEW j \in 1 .. Len(s), j > k PROVE s[j].name # n
        <5>1. file[k] < file[j] /\ file[j] \in InUse
          BY <2>1, <2>6, <4>3
        <5>2. file[j] # e /\ file[j] \in Entry /\ e \in Entry
          BY <2>3, <4>2, <5>1 DEF Entry
        <5>3. entries[file[j]].name # n
          BY <2>2, <2>3, <2>9, <4>1, <5>1, <5>2 DEF TableSound
        <5>. QED  BY <2>6, <5>3
      <4>4. InMemory(n, none)'
        BY <2>8 DEF InMemory, Exists, Holds
      <4>. QED  BY <2>6, <4>1, <4>2, <4>3, <4>4
    <3>2. CASE \A e \in InUse : entries[e].name # n
      <4>1. \A k \in 1 .. Len(s) : s[k].name # n
        BY <2>1, <2>6, <3>2
      <4>2. ASSUME BeingWritten(n) PROVE BeingWritten(n)'
        <5>1. PICK g \in Handle :
                /\ handles[g].open
                /\ handles[g].flags \cap {"WRONLY", "CREAT"} # {}
                /\ entries[handles[g].entry].name = n
          BY <4>2 DEF BeingWritten
        <5>2. handles[g].entry \in Entry /\ ~entries[handles[g].entry].used
          BY <1>0, <3>2, <5>1 DEF InUse
        <5>. QED  BY <2>2, <2>8, <5>1, <5>2 DEF BeingWritten
      <4>3. \A e \in Entry : ~Holds(e, n) /\ ~Holds(e, n)'
        BY <2>8, <3>2 DEF Holds, InUse
      <4>. QED  BY <4>1, <4>2, <4>3
    <3>. QED  BY <3>1, <3>2
  <2>. QED  BY <2>2, <2>7, <2>9, RequestStep
<1>. QED  BY <1>1, <1>2, <1>3, <1>4 DEF PathCall

LEMMA PageFollows ==
    ASSUME TypeOK, StoredFollows, NothingBeforeLoad,
           RequestSettles \/ RequestFails \/ PageCloses \/ PageLoads
    PROVE  StoredFollows'
<1>1. CASE RequestSettles \/ RequestFails
  <2>1. /\ pending # <<>> /\ pending' = Tail(pending)
        /\ entries' = entries /\ handles' = handles /\ loaded' = loaded
    BY <1>1 DEF RequestSettles, RequestFails
  <2>2. PICK q \in Requests : q = Head(pending) /\ q = pending[1]
    BY <2>1, SettledTypes
  <2>3. \/ stored' = [stored EXCEPT ![q.name] = q.data] /\ stale' = stale \ {q.name}
        \/ stored' = stored /\ stale' = stale \cup {q.name}
    BY <1>1, <2>2 DEF RequestSettles, RequestFails
  <2>4. /\ DOMAIN pending = 1 .. Len(pending) /\ Len(pending) \in Nat \ {0}
        /\ DOMAIN pending' = 1 .. Len(pending) - 1
        /\ \A i \in 1 .. Len(pending) - 1 : pending'[i] = pending[i + 1]
    BY <2>1, SettledTypes
  <2>5. \A n, data : InMemory(n, data)' <=> InMemory(n, data)
    BY <2>1 DEF InMemory, Exists, Holds, Content, Byte
  <2>6. ASSUME loaded', NEW n \in Name \ misused', ~BeingWritten(n)' PROVE Follows(n)'
    <3>1. Follows(n)
      BY <1>1, <2>1, <2>6 DEF StoredFollows, BeingWritten, RequestSettles, RequestFails
    <3>2. ASSUME NEW i \in DOMAIN pending, i # 1, LastRequest(i, n), InMemory(n, pending[i].data)
          PROVE  Follows(n)'
      <4>1. i - 1 \in DOMAIN pending' /\ pending'[i - 1] = pending[i]
        <5>1. i - 1 \in 1 .. Len(pending) - 1 /\ (i - 1) + 1 = i
          BY <2>4, <3>2
        <5>. QED  BY <2>4, <5>1
      <4>2. ASSUME NEW j \in DOMAIN pending', j > i - 1 PROVE pending'[j].name # n
        <5>1. j + 1 \in DOMAIN pending /\ j + 1 > i /\ pending'[j] = pending[j + 1]
          BY <2>4, <4>2
        <5>. QED  BY <3>2, <5>1 DEF LastRequest
      <4>3. LastRequest(i - 1, n)'
        BY <3>2, <4>1, <4>2 DEF LastRequest
      <4>. QED  BY <2>5, <3>2, <4>1, <4>3 DEF Follows
    <3>3. ASSUME LastRequest(1, n), InMemory(n, pending[1].data) PROVE Follows(n)'
      <4>1. n = q.name
        BY <2>2, <3>3 DEF LastRequest
      <4>2. ~Requested(n)'
        <5>1. ASSUME NEW j \in DOMAIN pending' PROVE pending'[j].name # n
          <6>1. j + 1 \in DOMAIN pending /\ j + 1 > 1 /\ pending'[j] = pending[j + 1]
            BY <2>4
          <6>. QED  BY <3>3, <6>1 DEF LastRequest
        <5>. QED  BY <5>1 DEF Requested
      <4>3. n \in stale' \/ stored'[n] = pending[1].data
        BY <2>2, <2>3, <4>1 DEF TypeOK
      <4>4. n \in stale' \/ InMemory(n, stored[n])'
        BY <2>5, <3>3, <4>3
      <4>. QED  BY <4>2, <4>4 DEF Follows
    <3>4. ASSUME ~Requested(n), n \in stale \/ InMemory(n, stored[n]) PROVE Follows(n)'
      <4>1. n # q.name
        BY <2>2, <2>4, <3>4 DEF Requested
      <4>2. stored'[n] = stored[n] /\ (n \in stale' <=> n \in stale)
        BY <2>3, <4>1 DEF TypeOK
      <4>3. ~Requested(n)'
        <5>1. ASSUME NEW j \in DOMAIN pending' PROVE pending'[j].name # n
          <6>1. j + 1 \in DOMAIN pending /\ pending'[j] = pending[j + 1]
            BY <2>4
          <6>. QED  BY <3>4, <6>1 DEF Requested
        <5>. QED  BY <5>1 DEF Requested
      <4>. QED  BY <2>5, <3>4, <4>2, <4>3 DEF Follows
    <3>. QED  BY <3>1, <3>2, <3>3, <3>4 DEF Follows
  <2>. QED  BY <2>6 DEF StoredFollows
<1>2. CASE PageCloses
  BY <1>2 DEF PageCloses, StoredFollows
<1>3. CASE PageLoads
  <2>1. PICK k \in 0 .. MAX_FILES : \E name \in [0 .. k - 1 -> {n \in Name : stored[n] # none}] :
          /\ entries' = [e \in Entry |-> IF e < k THEN File(name[e], stored[name[e]])
                                                  ELSE entries[e]]
          /\ stale' = {n \in Name : stored[n] # none} \ {name[i] : i \in 0 .. k - 1}
    BY <1>3, PageLoadsTable
  <2>2. PICK name \in [0 .. k - 1 -> {n \in Name : stored[n] # none}] :
          /\ entries' = [e \in Entry |-> IF e < k THEN File(name[e], stored[name[e]])
                                                  ELSE entries[e]]
          /\ stale' = {n \in Name : stored[n] # none} \ {name[i] : i \in 0 .. k - 1}
    BY <2>1
  <2>3. pending' = <<>> /\ stored' = stored /\ \A e \in Entry : ~entries[e].used
    BY <1>3 DEF PageLoads, NothingBeforeLoad
  <2>4. ASSUME NEW n \in Name PROVE Follows(n)'
    <3>1. ~Requested(n)'
      BY <2>3 DEF Requested
    <3>2. CASE stored[n] = none
      <4>1. ASSUME NEW e \in Entry, Holds(e, n)' PROVE FALSE
        <5>1. e < k
          BY <2>2, <2>3, <4>1 DEF Holds
        <5>2. e \in 0 .. k - 1 /\ entries'[e].name = name[e]
          BY <2>2, <5>1 DEF File, Entry
        <5>. QED  BY <2>2, <3>2, <4>1, <5>2 DEF Holds
      <4>2. InMemory(n, none)'
        BY <4>1 DEF InMemory, Exists
      <4>3. InMemory(n, stored[n])'
        BY <2>3, <3>2, <4>2 DEF InMemory
      <4>. QED  BY <3>1, <4>3 DEF Follows
    <3>3. CASE stored[n] # none /\ n \notin {name[i] : i \in 0 .. k - 1}
      BY <2>2, <3>1, <3>3 DEF Follows
    <3>4. CASE n \in {name[i] : i \in 0 .. k - 1} /\ stored[n] # none
      <4>1. PICK e \in 0 .. k - 1 : name[e] = n
        BY <3>4
      <4>2. e \in Entry /\ e < k
        BY FileAssumption DEF Entry, FileAssumption
      <4>3. stored[n] \in Bytes /\ entries'[e] = File(n, stored[n])
        BY <2>2, <3>4, <4>1, <4>2 DEF TypeOK
      <4>4. PICK data \in Bytes : data = stored[n] /\ data # none
        BY <3>4, <4>3
      <4>5. Holds(e, n)' /\ Content(e)' = data
        BY <4>2, <4>3, <4>4, LoadedContent
      <4>6. InMemory(n, data)'
        BY <4>2, <4>4, <4>5 DEF InMemory
      <4>7. InMemory(n, stored[n])'
        BY <2>3, <4>4, <4>6 DEF InMemory
      <4>. QED  BY <3>1, <4>7 DEF Follows
    <3>. QED  BY <3>2, <3>3, <3>4
  <2>. QED  BY <2>4 DEF StoredFollows
<1>. QED  BY <1>1, <1>2, <1>3

---------------------------------------------------------------------------
(* The theorems.                                                           *)

LEMMA InitInvariant == Init => IInv
<1>. SUFFICES ASSUME Init PROVE IInv
  OBVIOUS
<1>1. ~Unused.used /\ ~Closed.open
  BY DEF Unused, Closed
<1>2. /\ \A e \in Entry : ~entries[e].used
      /\ \A h \in Handle : ~handles[h].open
      /\ pending = <<>> /\ ~loaded
  BY <1>1 DEF Init
<1>. QED  BY <1>2, InitTypes DEF IInv, TableSound, StoredFollows, NothingBeforeLoad

LEMMA StepInvariant == IInv /\ [Next]_vars => IInv'
<1>. SUFFICES ASSUME IInv, [Next]_vars PROVE IInv'
  OBVIOUS
<1>. USE DEF IInv
<1>1. NothingBeforeLoad'
  BY LoadedFirst
<1>2. CASE HandleCall
  BY <1>1, <1>2, HandleCallTypes, HandleCallTable, HandleCallFollows
<1>3. CASE PathCall
  BY <1>1, <1>3, PathCallTypes, PathCallTable, PathCallFollows
<1>4. CASE RequestSettles \/ RequestFails \/ PageCloses \/ PageLoads
  BY <1>1, <1>4, PageTypes, PageTable, PageFollows
<1>5. CASE UNCHANGED vars
  BY <1>1, <1>5 DEF vars, TypeOK, TableSound, StoredFollows, Follows, Requested, LastRequest,
                    InMemory, BeingWritten, Exists, Holds, Content, Byte
<1>. QED  BY <1>2, <1>3, <1>4, <1>5 DEF Next

LEMMA Invariance == Spec => []IInv
<1>1. Init => IInv
  BY InitInvariant
<1>2. IInv /\ [Next]_vars => IInv'
  BY StepInvariant
<1>. QED  BY <1>1, <1>2, PTL DEF Spec

\* Entries, handles, requests and stored copies have their types: a position
\* is never negative, and what fs_web.c hands to bridge.js is a file.
THEOREM FileTypeCorrect == Spec => []TypeOK
<1>1. IInv => TypeOK
  BY DEF IInv
<1>. QED  BY <1>1, Invariance, PTL

\* A name means one file, and a handle that is open has one, for tables of
\* every size and whatever its callers do: the exceptions are the names that a
\* rename gave to a second file, and those of files removed while open.  They
\* last as long as the page, and they draw in no other name.
THEOREM TableIsSound == Spec => []TableSound
<1>1. IInv => TableSound
  BY DEF IInv
<1>. QED  BY <1>1, Invariance, PTL

\* The copies in IndexedDB follow the files: what was last asked for, or is
\* stored, is what memory holds, unless a request failed, the file is open for
\* writing, or its name was misused; that another name was changes nothing.
THEOREM StoredCopiesFollow == Spec => []StoredFollows
<1>1. IInv => StoredFollows
  BY DEF IInv
<1>. QED  BY <1>1, Invariance, PTL
=============================================================================
