--------------------------------- MODULE Vfs ---------------------------------
(***************************************************************************)
(* Paths, mounts, open files and the RAM file system: filesystem/fs,       *)
(* filesystem/ramfs, the directories of filesystem/devfs, and the calls of *)
(* kernel/src/syscall/fd.rs that work on them.  The root is the RAM file   *)
(* system fs::init mounts when there is no block device.                   *)
(*                                                                         *)
(* None of these calls waits, so each is one step.  A panic of the kernel  *)
(* is the state halted.  A node that nothing refers to any more is dropped *)
(* with its frames, as the last Arc does.                                  *)
(***************************************************************************)
EXTENDS RamFile, Sequences, FiniteSets, FiniteSetsExt

CONSTANTS Fds,          \* descriptors of the process
          NodeIds,      \* nodes that can exist at a time
          NFrames,      \* frames for files
          Args,         \* paths a call names: [abs, parts]
          NewName,      \* the path a rename names
          Sizes,        \* positions, lengths and counts that are asked for
          MaxSize,      \* a bound on the length of a file
          MaxEntries,   \* entries one getdents returns at most (50)
          MaxSteps      \* calls in a behaviour

ASSUME VfsAssumption ==
    /\ NodeIds \subseteq Nat /\ IsFiniteSet(NodeIds)
    /\ NFrames \in Nat /\ Sizes \subseteq Nat /\ MaxEntries \in Nat

Root == 1       \* the root directory, the one of /tmp and the one of /dev
Tmp == 2
Dev == 3
Null == 4
Mounted == 5    \* the directory tmp that fs::init makes in the root

Cwd == 0        \* AT_CWD, and the position of the file itself
Cur == -1
None == [node |-> 0]

VARIABLES nodes,    \* what each node is
          mounts,   \* MOUNTED_FS: a sequence of [path, node]
          open,     \* fd_table: for each descriptor None or an open file
          cwd,      \* curr_dir: the path and the node of the working directory
          oom,      \* whether a frame was ever refused
          halted,   \* whether the kernel has panicked
          steps

vars == <<nodes, mounts, open, cwd, oom, halted, steps>>

Gone == [k |-> "gone"]
Dir(ch) == [k |-> "dir", ch |-> ch]
Regular(f) == [k |-> "file", f |-> f]
Child(name, id) == [name |-> name, id |-> id]

IsDir(ns, n) == n \in DOMAIN ns /\ ns[n].k \in {"dir", "devdir"}
IsFile(ns, n) == n \in DOMAIN ns /\ ns[n].k = "file"

(***************************************************************************)
(* Paths: PathBuf is a sequence of names.                                  *)
(***************************************************************************)
Last(s) == s[Len(s)]
Front(s) == SubSeq(s, 1, Len(s) - 1)
IsPrefix(s, t) == Len(s) <= Len(t) /\ SubSeq(t, 1, Len(s)) = s

JoinPart(path, part) ==
    CASE part \in {".", ""} -> path
      [] part = ".."        -> IF path = <<>> THEN path ELSE Front(path)
      [] OTHER              -> Append(path, part)

join(base, arg) ==
    LET path[i \in 0 .. Len(arg.parts)] ==
            IF i > 0 THEN JoinPart(path[i - 1], arg.parts[i])
            ELSE IF arg.abs THEN <<>> ELSE base
    IN  path[Len(arg.parts)]

dir(path) == IF path = <<>> THEN path ELSE Front(path)

\* fd_resolve: a relative path starts at the working directory or at the path
\* the descriptor was opened with.  BadFd is EBADF.
BadFd == <<"EBADF">>

fd_resolve(fd, arg) ==
    IF arg.abs THEN join(<<>>, arg)
    ELSE IF fd = Cwd THEN join(cwd.path, arg)
    ELSE IF open[fd] = None THEN BadFd
    ELSE join(open[fd].path, arg)

\* get_mounted: the last mount whose path is a prefix, 0 when there is none.
get_mounted(path) ==
    LET fits == {i \in DOMAIN mounts : IsPrefix(mounts[i].path, path)}
    IN  IF fits = {} THEN 0 ELSE Max(fits)

(***************************************************************************)
(* Directories.                                                            *)
(***************************************************************************)
\* The nodes a directory has under a name, the first one first.
Named(ns, n, name) ==
    IF IsDir(ns, n) THEN SelectSeq(ns[n].ch, LAMBDA c : c.name = name) ELSE <<>>

\* lookup: 0 is ENOENT.
lookup(ns, n, name) ==
    IF n = 0 \/ Named(ns, n, name) = <<>> THEN 0 ELSE Head(Named(ns, n, name)).id

Walk(n, names) ==
    LET node[i \in 0 .. Len(names)] ==
            IF i = 0 THEN n ELSE lookup(nodes, node[i - 1], names[i])
    IN  node[Len(names)]

\* The frames the files hold, the i-th one of node n as <<n, i>>, and how many
\* are left.
Frames(ns) == {p \in NodeIds \X (1 .. NFrames) : IsFile(ns, p[1]) /\ p[2] <= ns[p[1]].f.np}

Free(ns) == NFrames - Cardinality(Frames(ns))

NewId == CHOOSE n \in NodeIds : nodes[n] = Gone /\ \A m \in NodeIds : nodes[m] = Gone => n <= m

Push(ns, n, name, id, what) ==
    [ns EXCEPT ![n].ch = Append(@, Child(name, id)), ![id] = what]

\* create: a new entry, whether or not the name is taken.
create(ns, n, name, isDir) ==
    Push(ns, n, name, NewId, IF isDir THEN Dir(<<>>) ELSE Regular(EmptyFile))

\* A mutant: the first entry only.
remove_first(ns, n, name) ==
    LET ch == ns[n].ch
        is == {i \in DOMAIN ch : ch[i].name = name /\ IsFile(ns, ch[i].id)}
    IN  IF is = {} THEN ns ELSE [ns EXCEPT ![n].ch = SubSeq(ch, 1, Min(is) - 1) \o SubSeq(ch, Min(is) + 1, Len(ch))]

\* remove: every file of that name; directories stay.
remove(ns, n, name) ==
    [ns EXCEPT ![n].ch = SelectSeq(@, LAMBDA c : ~(c.name = name /\ IsFile(ns, c.id)))]

(***************************************************************************)
(* File::open.  The answer is "ok" with a node, "err" or "panic"; ns is    *)
(* what the nodes become, which an O_CREAT changes even if the rest of the *)
(* call fails.                                                             *)
(***************************************************************************)
Answer(what, n, ns) == [what |-> what, node |-> n, ns |-> ns]

Open(path, flags) ==
    LET i == get_mounted(path)
        rel == SubSeq(path, Len(mounts[i].path) + 1, Len(path))
        d == Walk(mounts[i].node, Front(rel))
        ns == create(nodes, d, Last(rel), "dir" \in flags)
    IN  IF path = BadFd THEN Answer("err", 0, nodes)
        ELSE IF i = 0 THEN Answer("panic", 0, nodes)
        ELSE IF rel = <<>> THEN Answer("ok", mounts[i].node, nodes)
        ELSE IF d = 0 THEN Answer("err", 0, nodes)
        ELSE IF "creat" \in flags
        THEN IF nodes[d].k = "dir" THEN Answer("ok", lookup(ns, d, Last(rel)), ns)
             ELSE Answer("err", 0, nodes)
        ELSE IF lookup(nodes, d, Last(rel)) = 0 THEN Answer("err", 0, nodes)
        ELSE Answer("ok", lookup(nodes, d, Last(rel)), nodes)

\* A new node needs an identity: the bound on the nodes.
Room(flags) == "creat" \in flags => \E n \in NodeIds : nodes[n] = Gone

\* An open file.  listed and clean record what getdents has returned since it
\* last started at the beginning, and that the listing was not disturbed.
File(n, path, flags) ==
    [node |-> n, path |-> path, off |-> 0, flags |-> flags, listed |-> <<>>, clean |-> FALSE]

alloc_fd == IF \E d \in Fds : open[d] = None
            THEN Min({d \in Fds : open[d] = None}) ELSE 0

writeable(file) == "w" \in file.flags

(***************************************************************************)
(* The state after a call.                                                 *)
(***************************************************************************)
\* The nodes reachable from the mounts, the open files and the working
\* directory.
Children(ns, ids) ==
    ids \cup UNION {{c.id : c \in Range(ns[n].ch)} : n \in {m \in ids : IsDir(ns, m)}}

Alive(ns, ms, op, wd) ==
    LET held == {m.node : m \in Range(ms)} \cup {op[d].node : d \in Fds} \cup {wd.node}
        reach[i \in 0 .. Cardinality(NodeIds)] ==
            IF i = 0 THEN held \ {0} ELSE Children(ns, reach[i - 1])
    IN  reach[Cardinality(NodeIds)]

\* The call leaves the nodes ns and the open files op.
Leaves(ns, op) ==
    /\ nodes' = ns
    /\ open' = op
    /\ UNCHANGED <<mounts, cwd, halted>>

\* The same, of a call that may have dropped the last reference to a node.
Drops(ns, ms, op, wd) ==
    LET alive == Alive(ns, ms, op, wd)
    IN  /\ nodes' = [n \in NodeIds |-> IF n \in alive THEN ns[n] ELSE Gone]
        /\ mounts' = ms
        /\ open' = op
        /\ cwd' = wd
        /\ UNCHANGED <<oom, halted>>

Changes(ns) == Leaves(ns, open)

Panic == halted' = TRUE /\ UNCHANGED <<nodes, mounts, open, cwd, oom>>

Same == UNCHANGED <<nodes, mounts, open, cwd, oom, halted>>

Init ==
    /\ nodes = [n \in NodeIds |->
                  CASE n = Root -> Dir(<<Child("dev", 6), Child("tmp", Mounted)>>)
                    [] n \in {Tmp, Mounted, 6} -> Dir(<<>>)
                    [] n = Dev -> [k |-> "devdir", ch |-> <<Child("null", Null)>>]
                    [] n = Null -> [k |-> "dev"]
                    [] OTHER -> Gone]
    /\ mounts = <<[path |-> <<>>, node |-> Root], [path |-> <<"dev">>, node |-> Dev],
                  [path |-> <<"tmp">>, node |-> Tmp]>>
    /\ open = [d \in Fds |-> None]
    /\ cwd = [path |-> <<>>, node |-> Root]
    /\ oom = FALSE /\ halted = FALSE /\ steps = 0


(***************************************************************************)
(* Calls on paths.                                                         *)
(***************************************************************************)
sys_openat(fd, arg, flags) ==
    /\ Room(flags)
    /\ LET path == fd_resolve(fd, arg)
           a == Open(path, flags)
       IN  IF a.what = "panic" THEN Panic
           ELSE IF a.what = "err" \/ alloc_fd = 0 THEN Changes(a.ns) /\ UNCHANGED oom
           ELSE /\ Leaves(a.ns, [open EXCEPT ![alloc_fd] = File(a.node, path, flags)])
                /\ UNCHANGED oom

sys_close(d) ==
    /\ Drops(nodes, mounts, [open EXCEPT ![d] = None], cwd)

\* The calls that open a path, look at the file or do nothing to it, and close
\* it again.
OpenOnly(fd, arg, flags) ==
    /\ Room(flags)
    /\ LET a == Open(fd_resolve(fd, arg), flags)
       IN  IF a.what = "panic" THEN Panic ELSE Changes(a.ns) /\ UNCHANGED oom

sys_mkdir_at(fd, arg) == OpenOnly(fd, arg, {"dir", "creat"})

sys_faccess_at(fd, arg, flags) == OpenOnly(fd, arg, flags)

sys_fstatat(fd, arg) == OpenOnly(fd, arg, {})

sys_statx(fd, arg) == OpenOnly(fd, arg, {})

\* statfs takes a relative path from the root
sys_statfs(arg) == OpenOnly(Cwd, [arg EXCEPT !.abs = TRUE], {})

\* the times of a file are not modelled
sys_utimensat(fd, arg) == OpenOnly(fd, arg, {})

\* EINVAL: no node of these file systems is a link
sys_readlinkat(fd, arg) == OpenOnly(fd, arg, {})

\* Modes, owners and hard links are answered with success and not kept.
sys_fchmodat(fd, arg) == OpenOnly(fd, arg, {})

sys_chown(arg) == OpenOnly(Cwd, arg, {})

sys_lchown(arg) == OpenOnly(Cwd, arg, {})

sys_fchownat(fd, arg) == OpenOnly(fd, arg, {})

sys_linkat(fd, arg) == OpenOnly(fd, arg, {})

\* symlinkat opens the directory, which then refuses the link.
sys_symlinkat(fd, arg) ==
    LET path == fd_resolve(fd, arg)
    IN  IF path # BadFd /\ Open(dir(path), {"dir"}).what = "panic" THEN Panic ELSE Same

sys_chdir(arg) ==
    /\ LET path == fd_resolve(Cwd, arg)
           a == Open(path, {})
       IN  IF a.what = "panic" THEN Panic
           ELSE IF a.what = "ok" /\ IsDir(nodes, a.node)
           THEN Drops(nodes, mounts, open, [path |-> path, node |-> a.node])
           ELSE Same

\* The listings of a directory that lost an entry are disturbed.
Disturbed(op, d) ==
    [i \in Fds |-> IF op[i].node = d THEN [op[i] EXCEPT !.clean = FALSE] ELSE op[i]]

\* unlinkat opens the file and removes its name from the directory the path is
\* in, which another mount may answer for.
sys_unlinkat(fd, arg) ==
    /\ LET path == fd_resolve(fd, arg)
           a == Open(path, {})
           d == Open(dir(path), {})
       IN  IF a.what = "panic" THEN Panic
           ELSE IF a.what = "ok" /\ d.what = "ok" /\ nodes[d.node].k = "dir" /\ path # <<>>
           THEN Drops(remove(nodes, d.node, Last(path)), mounts, Disturbed(open, d.node), cwd)
           ELSE IF a.what = "ok" /\ d.what = "panic" THEN Panic
           ELSE Same

\* renameat2: a regular file is copied to the new name, whose old contents it
\* replaces if the flags of the call allow writing; the old name stays.  Of a
\* directory only the new name is made.  Anything else is a panic.
sys_renameat2(fd, old, new, flags) ==
    /\ Room({"creat"})
    /\ LET o == Open(fd_resolve(fd, old), {})
           target == fd_resolve(fd, new)
           n == Open(target, flags \cup {"creat"} \cup IF IsDir(nodes, o.node) THEN {"dir"} ELSE {})
           f == nodes[o.node].f
           g == n.ns[n.node].f
           free == Free(n.ns)
           bytes == ReadInto(f, 0, f.len)
           written == IF f.len = 0 THEN g ELSE writeat(g, 0, bytes, f.len, free)
           cut == truncate(written, f.len, free - (written.np - g.np))
       IN  IF o.what = "panic" THEN Panic
           ELSE IF o.what = "err" THEN Same
           ELSE IF ~(IsDir(nodes, o.node) \/ IsFile(nodes, o.node)) THEN Panic
           ELSE IF n.what = "panic" THEN Panic
           ELSE IF n.what = "err" THEN Same
           ELSE IF IsFile(nodes, o.node) /\ ReadPanics(f, 0, f.len) THEN Panic
           ELSE IF IsDir(nodes, o.node) \/ "w" \notin flags THEN Changes(n.ns) /\ UNCHANGED oom
           ELSE IF ~IsFile(n.ns, n.node) \/ (f.len > 0 /\ WriteFails(g, 0, f.len, free))
           THEN /\ Changes(n.ns)
                /\ oom' = (oom \/ IsFile(n.ns, n.node))
           ELSE /\ Changes([n.ns EXCEPT ![n.node].f = cut])
                /\ oom' = (oom \/ Wanted(g, f.len) > free)

\* mount makes the directory in the root and mounts nothing, because no device
\* node can be mounted; a mount point that exists is left alone.  umount takes
\* the path out of the table, the root's included; a path below /dev names a
\* device, which cannot be unmounted.
sys_mount(name) ==
    /\ Room({"creat"})
    /\ LET r == Open(<<>>, {})
       IN  IF r.what = "panic" THEN Panic
           ELSE IF Named(nodes, r.node, name) = <<>>
           THEN Changes(create(nodes, r.node, name, TRUE)) /\ UNCHANGED oom
           ELSE Same

sys_umount2(path) ==
    /\ IF path # <<>> /\ Head(path) = "dev" THEN Same
       ELSE Drops(nodes, SelectSeq(mounts, LAMBDA m : m.path # path), open, cwd)


(***************************************************************************)
(* Calls on open files.                                                    *)
(***************************************************************************)
Moved(op, d, n) == [op EXCEPT ![d].off = @ + n]

IsOpen(d) == open[d] # None
OpenFile(d) == IsOpen(d) /\ IsFile(nodes, open[d].node)
FileOf(d) == nodes[open[d].node].f

\* What is written: never a cleared byte.
Bytes(n) == [i \in 1 .. n |-> 1]

\* readv with two buffers, and read with one: the second is read from the
\* position the first left.  A directory answers an error, a device 0.
sys_readv(d, n, m) ==
    /\ IsOpen(d)
    /\ IF ~OpenFile(d) THEN Same
       ELSE LET f == FileOf(d)
                off == open[d].off
                first == read_len(f, off, n)
                second == read_len(f, off + first, m)
            IN  IF ReadPanics(f, off, n) \/ ReadPanics(f, off + first, m) THEN Panic
                ELSE /\ open' = Moved(open, d, first + second)
                     /\ UNCHANGED <<nodes, mounts, cwd, oom, halted>>

sys_read(d, n) == sys_readv(d, n, 0)

sys_pread(d, off, n) ==
    /\ IsOpen(d)
    /\ IF OpenFile(d) /\ ReadPanics(FileOf(d), off, n) THEN Panic ELSE Same

\* How many of n bytes writeat takes at off of node id: none without the first
\* frame it wants.
put_len(id, off, n) ==
    LET f == nodes[id].f
    IN  IF n = 0 \/ ~IsFile(nodes, id) \/ WriteFails(f, off, n, Free(nodes)) THEN 0
        ELSE actual_write_size(f, off, n, Free(nodes))

\* n bytes of buf to the node id at off; the open files become op.
Put(id, off, buf, n, op) ==
    LET f == nodes[id].f
        free == Free(nodes)
    IN  IF n = 0 \/ ~IsFile(nodes, id) THEN Leaves(nodes, op) /\ UNCHANGED oom
        ELSE IF WriteFails(f, off, n, free) THEN Leaves(nodes, op) /\ oom' = TRUE
        ELSE /\ Leaves([nodes EXCEPT ![id].f = writeat(f, off, buf, n, free)], op)
             /\ oom' = (oom \/ Wanted(f, off + n) > free)

\* write does not ask whether the file was opened for writing; writev, pwrite
\* and the copying calls do.
sys_write(d, n) ==
    /\ IsOpen(d)
    /\ LET id == open[d].node
           off == open[d].off
       IN  Put(id, off, Bytes(n), n, Moved(open, d, put_len(id, off, n)))

sys_writev(d, n) ==
    /\ IsOpen(d)
    /\ IF writeable(open[d]) THEN sys_write(d, n) ELSE Same

sys_pwrite(d, off, n) ==
    /\ IsOpen(d)
    /\ IF ~writeable(open[d]) THEN Same
       ELSE Put(open[d].node, off, Bytes(n), n, open)

\* sendfile: an offset of 0 means the position of the input.  Past the end of
\* the input the length wraps, and count cleared bytes are sent.
sys_sendfile(out, in, offset, count) ==
    /\ IsOpen(out) /\ OpenFile(in)
    /\ LET f == FileOf(in)
           off == IF offset # 0 THEN offset ELSE open[in].off
           rlen == IF off > f.len THEN count ELSE Smaller(f.len - off, count)
           read == IF offset = 0 THEN Moved(open, in, read_len(f, off, rlen)) ELSE open
       IN  IF ReadPanics(f, off, rlen) THEN Panic
           ELSE IF ~writeable(open[out])
           THEN Leaves(nodes, read) /\ UNCHANGED oom
           ELSE Put(open[out].node, read[out].off, ReadInto(f, off, rlen), rlen,
                    Moved(read, out, put_len(open[out].node, read[out].off, rlen)))

\* copy_file_range: each side at the position given, or at its own (Cur).
sys_copy_file_range(in, offIn, out, offOut, n) ==
    /\ OpenFile(in) /\ IsOpen(out)
    /\ LET f == FileOf(in)
           off == IF offIn = Cur THEN open[in].off ELSE offIn
           rsize == read_len(f, off, n)
           read == IF offIn = Cur THEN Moved(open, in, rsize) ELSE open
           at == IF offOut = Cur THEN read[out].off ELSE offOut
       IN  IF ReadPanics(f, off, n) THEN Panic
           ELSE IF rsize = 0 \/ ~writeable(open[out])
           THEN Leaves(nodes, read) /\ UNCHANGED oom
           ELSE Put(open[out].node, at, ReadInto(f, off, rsize), rsize,
                    IF offOut = Cur THEN Moved(read, out, put_len(open[out].node, at, rsize))
                    ELSE read)

\* seek: a position before the start is the start.
sys_lseek(d, whence, delta) ==
    /\ IsOpen(d)
    /\ LET size == IF OpenFile(d) THEN FileOf(d).len ELSE 0
           to == delta + CASE whence = "SET" -> 0
                           [] whence = "CUR" -> open[d].off
                           [] whence = "END" -> size
       IN  /\ to <= MaxSize
           /\ open' = [open EXCEPT ![d].off = IF to < 0 THEN 0 ELSE to, ![d].clean = FALSE]
           /\ UNCHANGED <<nodes, mounts, cwd, oom, halted>>

Cut(id, size) ==
    IF ~IsFile(nodes, id) THEN Same
    ELSE /\ Changes([nodes EXCEPT ![id].f = truncate(@, size, Free(nodes))])
         /\ oom' = (oom \/ Wanted(nodes[id].f, size) > Free(nodes))

sys_ftruncate(d, size) == IsOpen(d) /\ Cut(open[d].node, size)

sys_truncate(arg, size) ==
    /\ LET a == Open(join(<<>>, arg), {"w"})
       IN  IF a.what = "panic" THEN Panic
           ELSE IF a.what = "err" THEN Same
           ELSE Cut(a.node, size)

Names(n) == [i \in DOMAIN nodes[n].ch |-> nodes[n].ch[i].name]

\* How many of names from off on fit into the buffer.
Fitting(names, off, room) ==
    Cardinality({i \in 1 .. Smaller(room, MaxEntries) : off + i \in DOMAIN names})

\* A mutant: the entry after the last one returned is skipped.
getdents_skips(d, room) ==
    LET h == open[d]
        k == Fitting(Names(h.node), h.off, room)
        clean == (k > 0 /\ h.off = 0) \/ (h.clean /\ room > 0)
    IN  [h EXCEPT !.off = IF k = 0 THEN 0 ELSE h.off + k + 1,
                  !.listed = IF ~clean THEN <<>>
                             ELSE (IF h.off = 0 THEN <<>> ELSE @)
                                    \o SubSeq(Names(h.node), h.off + 1, h.off + k),
                  !.clean = clean]

\* getdents: the entries from the position on, as many as fit; when there are
\* none, or the first does not fit, the position starts over.
getdents(d, room) ==
    LET h == open[d]
        k == Fitting(Names(h.node), h.off, room)
        clean == (k > 0 /\ h.off = 0) \/ (h.clean /\ room > 0)
    IN  [h EXCEPT !.off = IF k = 0 THEN 0 ELSE h.off + k,
                  !.listed = IF ~clean THEN <<>>
                             ELSE (IF h.off = 0 THEN <<>> ELSE @)
                                    \o SubSeq(Names(h.node), h.off + 1, h.off + k),
                  !.clean = clean]

\* A descriptor that is not open is a panic; a file that is no directory
\* answers 0 entries.
sys_getdents64(d, room) ==
    /\ IF ~IsOpen(d) THEN Panic
       ELSE IF ~IsDir(nodes, open[d].node) THEN Same
       ELSE /\ open' = [open EXCEPT ![d] = getdents(d, room)]
            /\ UNCHANGED <<nodes, mounts, cwd, oom, halted>>


Bases(arg) == IF arg.abs THEN {Cwd} ELSE {Cwd} \cup Fds

PathCalls ==
    \E arg \in Args :
       \/ \E fd \in Bases(arg) :
             \/ \E flags \in {{}, {"w", "creat"}} : sys_openat(fd, arg, flags)
             \/ sys_mkdir_at(fd, arg)
             \/ sys_unlinkat(fd, arg)
             \/ sys_fstatat(fd, arg) \/ sys_statx(fd, arg) \/ sys_utimensat(fd, arg)
             \/ sys_readlinkat(fd, arg) \/ sys_fchmodat(fd, arg) \/ sys_fchownat(fd, arg)
             \/ sys_linkat(fd, arg) \/ sys_symlinkat(fd, arg)
       \/ sys_statfs(arg) \/ sys_chown(arg) \/ sys_lchown(arg)
       \/ sys_faccess_at(Cwd, arg, {"creat"})
       \/ sys_chdir(arg)
       \/ sys_umount2(join(<<>>, arg))
       \/ sys_mount(Last(arg.parts))
       \/ \E n \in Sizes : sys_truncate(arg, n)
       \/ \E flags \in {{}, {"w"}} : sys_renameat2(Cwd, arg, NewName, flags)

FileCalls ==
    \E d \in Fds :
       \/ sys_close(d)
       \/ sys_readv(d, 1, 1)
       \/ \E n \in Sizes :
             \/ sys_read(d, n)
             \/ sys_write(d, n)
             \/ sys_ftruncate(d, n)
             \/ sys_pread(d, n, 1)
             \/ sys_pwrite(d, n, 1)
       \/ sys_writev(d, 1)
       \/ \E seek \in {<<"SET", 0>>, <<"CUR", -1>>, <<"END", 1>>} : sys_lseek(d, seek[1], seek[2])
       \/ \E e \in Fds, n \in Sizes :
             \/ \E off \in {0, 1} : sys_sendfile(d, e, off, n)
             \/ sys_copy_file_range(d, Cur, e, Cur, n)
             \/ sys_copy_file_range(d, 0, e, 1, n)

\* The bound: the calls that have an effect, without the ones that list a
\* directory, which can go on as long as it takes.
Counted == steps' = IF Same THEN steps ELSE steps + 1

Listings == \E d \in Fds, room \in 0 .. 1 : sys_getdents64(d, room)

Next ==
    /\ ~halted
    /\ \/ steps < MaxSteps /\ (PathCalls \/ FileCalls) /\ Counted
       \/ Listings /\ UNCHANGED steps

Spec == Init /\ [][Next]_vars

(***************************************************************************)
(* Properties.                                                             *)
(***************************************************************************)
\* Whatever sequence of writes, truncations, copies and renames the files have
\* been through, the bytes a file holds beyond its length are zeros: a file that
\* grows again never shows what it held before.
NoStaleBytes == \A n \in NodeIds : IsFile(nodes, n) => TailZero(nodes[n].f)

\* A file has a frame for every byte of its length, and reading it cannot index
\* past its frames, unless a frame was refused earlier: writeat and truncate
\* then leave a length without frames.
LengthBacked == oom \/ \A n \in NodeIds : IsFile(nodes, n) => Backed(nodes[n].f)

\* A name that unlinkat took away is gone: creating a file twice leaves two
\* entries of that name, and one unlink removes both, so that no other file
\* appears under the name (a directory of the same name may).
UnlinkedIsGone ==
    [][\A n \in NodeIds : \A c \in 1 .. Cardinality(NodeIds) :
         (/\ nodes[n].k = "dir" /\ nodes'[n].k = "dir"
          /\ c \in DOMAIN nodes[n].ch
          /\ Len(nodes'[n].ch) < Len(nodes[n].ch)
          /\ nodes[n].ch[c] \notin Range(nodes'[n].ch))
         => \A e \in Range(nodes'[n].ch) : e.name = nodes[n].ch[c].name => nodes'[e.id].k = "dir"]_vars

\* A directory read with getdents until it answers no entry was listed
\* completely, each entry once, in spite of entries added in between, provided
\* none was removed, the position was not moved and every entry fitted into the
\* buffer.
ListingExact ==
    [][\A d \in Fds : (/\ open[d] # None /\ open'[d] # None
                       /\ open[d].node = open'[d].node
                       /\ open[d].off > 0 /\ open'[d].off = 0 /\ open'[d].clean)
         => open'[d].listed = Names(open[d].node)]_vars
=============================================================================
