--------------------------------- MODULE Vfs ----------------------------------
(***************************************************************************)
(* Files by name: the dentry cache of fs/vfs.c and fs/dcache.c, reference  *)
(* counts of fs/fs_inode.c and fs/fs_file.c, the file system initramfs      *)
(* under it and the descriptors of lib/sys/sys_fs.c.                        *)
(*                                                                         *)
(* System calls run inside the SVC exception, which the scheduler's PendSV *)
(* does not preempt: on one core a call is one step. remove_dentry is not  *)
(* a system call; only a task of the kernel can call it, and PendSV can    *)
(* preempt it there. It is one step here all the same: nothing is said of  *)
(* a call that comes in the middle of a removal. Memory does not run out.  *)
(* The only list of entries is the root's: initramfs_mkdir gives the entry *)
(* it makes the mode of a regular file and builds the directory's inode    *)
(* from its parent's, so that no other initramfs inode is a directory, and *)
(* every directory shows the root's entries. What happens after an entry   *)
(* freed under one path is used under another is not followed (Sound). A   *)
(* device stands for its node in the devfs mounted at /dev, whose dentry   *)
(* has been in the cache since it was registered.                          *)
(***************************************************************************)
EXTENDS Integers, Sequences, FiniteSets, SequencesExt

CONSTANTS
    Names,     \* the components of a path
    Devs,      \* the character devices
    Nil,
    MaxDepth,  \* bound on the length of a path
    MaxFd,     \* descriptors: 256 in the code
    MaxIno     \* bound on the inodes made

Root == <<>>
FilePaths == UNION {[1 .. n -> Names] : n \in 1 .. MaxDepth}
DevPaths == {<<d>> : d \in Devs}
Paths == FilePaths \cup DevPaths
Ino == 1 .. MaxIno + MaxDepth      \* VFS inodes, in the order they are made
File == 0 .. MaxFd                 \* struct file, one more than descriptors
Fd == 0 .. MaxFd - 1
RootIno == 0                       \* the initramfs inode of the root

ASSUME VfsAssumption ==
    /\ MaxDepth \in Nat \ {0} /\ MaxFd \in Nat \ {0} /\ MaxIno \in Nat \ {0}
    /\ IsFiniteSet(Names) /\ Devs \cap Names = {} /\ \A c, d \in Devs : c = d
    /\ Nil \notin Nat

(***************************************************************************)
(* An initramfs entry and its inode are one, and are named by the first    *)
(* VFS inode made for them.                                                 *)
(***************************************************************************)
VARIABLES
    vfs,   \* list:  the root's entries by name
           \* cache: by path, the dentry: its entry (d_fsdata) and its d_inode
           \* inode: i_mode, i_private and i_count of the VFS inodes
           \* refs:  d_lockref.count of the dentries
    file,  \* f_inode of the open files
    fd     \* fd_table

vars == <<vfs, file, fd>>

NoDentry == [entry |-> Nil, ino |-> Nil]
NoInode == [mode |-> Nil, priv |-> Nil, count |-> 0]

TypeOK ==
    /\ vfs \in [list : [Names -> Ino \cup {Nil}],
                cache : [Paths -> [entry : Ino \cup {Nil}, ino : Ino \cup {Nil}]],
                inode : [Ino -> [mode : {"file", "dir", "dev", Nil}, priv : Ino \cup {RootIno, Nil},
                                 count : 0 .. MaxFd + 1]],
                refs : [FilePaths \cup {Root} -> Nat]]
    /\ file \in [File -> Ino \cup {Nil}]
    /\ fd \in [Fd -> File \cup {Nil}]

\* The root is empty, as mount_root_fs leaves it, and the device is registered; the
\* directories that root_fs_init makes are Mkdir steps.
Init ==
    /\ vfs = [list |-> [n \in Names |-> Nil],
              cache |-> [p \in Paths |-> IF p \in DevPaths THEN [entry |-> 1, ino |-> 1] ELSE NoDentry],
              inode |-> [i \in Ino |-> IF i = 1 /\ Devs # {}
                                       THEN [mode |-> "dev", priv |-> 1, count |-> 1] ELSE NoInode],
              refs |-> [p \in FilePaths \cup {Root} |-> 0]]
    /\ file = [f \in File |-> Nil]
    /\ fd = [i \in Fd |-> Nil]

-----------------------------------------------------------------------------
\* The dentries, as operators on the state s of vfs.
Cached(s, p) == IF p = Root THEN TRUE ELSE s.cache[p] # NoDentry
Mode(s, p) == IF p = Root THEN "dir" ELSE s.inode[s.cache[p].ino].mode
Priv(s, p) == IF p = Root THEN RootIno ELSE s.inode[s.cache[p].ino].priv

\* new_inode: the next one not used.
Fresh(s) == Cardinality({i \in Ino : s.inode[i] # NoInode}) + 1

\* d_alloc counts a reference to the parent, __d_drop gives it back.
Alloc(s, p) == [s EXCEPT !.refs[Front(p)] = @ + 1]
Drop(s, p) == [s EXCEPT !.refs[Front(p)] = @ - 1]

\* d_add of a dentry for entry e with a new inode.
Add(s, p, e, mode, priv) ==
    [s EXCEPT !.inode[Fresh(s)] = [mode |-> mode, priv |-> priv, count |-> 1],
              !.cache[p] = [entry |-> e, ino |-> Fresh(s)]]

Found(s, ok) == [s |-> s, ok |-> ok]

\* initramfs_vfs_lookup: an entry of the directory's list.  Only the root's inode is a
\* directory to initramfs_lookup.
Lookup(s, p) == IF Priv(s, Front(p)) = RootIno THEN s.list[Last(p)] ELSE Nil

\* Slip: the dentry allocated for a name that is not there is not dropped.
Find_NoDrop(s, p) ==
    LET a == Alloc(s, p) e == Lookup(s, p) IN
    IF Cached(s, p) THEN Found(s, TRUE)
    ELSE IF e = Nil THEN Found(a, FALSE) ELSE Found(Add(a, p, e, "file", e), TRUE)

\* find_dentry: from the cache, or from the file system into the cache.
Find(s, p) ==
    LET a == Alloc(s, p) e == Lookup(s, p) IN
    IF Cached(s, p) THEN Found(s, TRUE)
    ELSE IF e = Nil THEN Found(Drop(a, p), FALSE) ELSE Found(Add(a, p, e, "file", e), TRUE)

\* select_file, the first n components.
Select(s, p, n) ==
    LET walk[i \in 0 .. n] ==
            IF i = 0 THEN Found(s, TRUE)
            ELSE IF walk[i - 1].ok THEN Find(walk[i - 1].s, SubSeq(p, 1, i)) ELSE walk[i - 1]
    IN walk[n]

\* initramfs_create and initramfs_mkdir: a new entry; the inode of a directory is made
\* from its parent's.
MakeEntry(s, p, mode) ==
    Add([s EXCEPT !.list[Last(p)] = Fresh(s)], p, Fresh(s), mode,
        IF mode = "dir" THEN Priv(s, Front(p)) ELSE Fresh(s))

\* create_new_dentry with create_dentry.
Create(s, p, mode) ==
    LET dir == Select(s, p, Len(p) - 1)
        old == Find(dir.s, p)
    IN IF ~dir.ok \/ Mode(dir.s, Front(p)) # "dir" THEN Found(dir.s, FALSE)
       ELSE IF old.ok THEN Found(old.s, FALSE)
       ELSE Found(MakeEntry(Alloc(old.s, p), p, mode), TRUE)

\* An initramfs inode that has not been freed, and what a walk over p dereferences.
Live(e) == e = RootIno \/ \E n \in Names : vfs.list[n] = e
Sound(p) ==
    \A n \in 1 .. Len(p) - 1 :
        Cached(vfs, SubSeq(p, 1, n)) => Live(Priv(vfs, SubSeq(p, 1, n)))
Bounded(s) == Fresh(s) <= MaxIno + 1

-----------------------------------------------------------------------------
FreeFile == CHOOSE f \in File : file[f] = Nil
FreeFds == {i \in Fd : fd[i] = Nil}
Lowest(S) == CHOOSE i \in S : \A j \in S : i <= j

\* inode_get and inode_put; destroy_inode frees the inode.
Get(s, i) == [s EXCEPT !.inode[i].count = @ + 1]
Put(s, i) ==
    IF s.inode[i].count = 1 THEN [s EXCEPT !.inode[i] = NoInode]
    ELSE [s EXCEPT !.inode[i].count = @ - 1]

NoFile(s) == vfs' = s /\ UNCHANGED <<file, fd>>

\* filp_open returns NULL when the driver's open fails, having put the file; sys_open
\* stores that NULL in the first free descriptor, which stays free.
Refused(s, i) == vfs' = Put(Get(s, i), i) /\ UNCHANGED <<file, fd>>

\* Slip: with the table full the file is not closed.
Opened_NoClose(s, i) ==
    /\ vfs' = Get(s, i)
    /\ file' = [file EXCEPT ![FreeFile] = i]
    /\ fd' = IF FreeFds = {} THEN fd ELSE [fd EXCEPT ![Lowest(FreeFds)] = FreeFile]

\* Slip: f_get does not count the file.
Opened_NoGet(s, i) ==
    /\ FreeFds # {}
    /\ vfs' = s
    /\ file' = [file EXCEPT ![FreeFile] = i]
    /\ fd' = [fd EXCEPT ![Lowest(FreeFds)] = FreeFile]

\* install_fd, or filp_close when no descriptor is free.
Opened(s, i) ==
    IF FreeFds = {} THEN vfs' = Put(Get(s, i), i) /\ UNCHANGED <<file, fd>>
    ELSE /\ vfs' = Get(s, i)
         /\ file' = [file EXCEPT ![FreeFile] = i]
         /\ fd' = [fd EXCEPT ![Lowest(FreeFds)] = FreeFile]

\* sys_open -> filp_open: with O_CREAT a file that is not there is made.
Open(p, creat) ==
    LET old == Select(vfs, p, Len(p))
        new == IF old.ok \/ ~creat THEN old ELSE Create(old.s, p, "file")
        i == new.s.cache[p].ino
    IN /\ Sound(p) /\ Bounded(new.s)
       /\ IF ~new.ok THEN NoFile(new.s)
          ELSE \/ Opened(new.s, i)
               \/ new.s.inode[i].mode = "dev" /\ Refused(new.s, i)

\* sys_close: filp_close frees the file, then the descriptor is cleared.
Close(i) ==
    /\ fd[i] # Nil
    /\ vfs' = Put(vfs, file[fd[i]])
    /\ file' = [file EXCEPT ![fd[i]] = Nil]
    /\ fd' = [fd EXCEPT ![i] = Nil]

\* sys_mkdir -> create_new_dentry.
Mkdir(p) ==
    LET new == Create(vfs, p, "dir") IN
    /\ Sound(p) /\ Bounded(new.s)
    /\ NoFile(new.s)

\* The dentry of p and, unreachable from then on, those below it.
Forget(s, p) ==
    [s EXCEPT !.cache = [q \in Paths |-> IF IsPrefix(p, q) THEN NoDentry ELSE @[q]],
              !.refs = [q \in FilePaths \cup {Root} |-> IF IsPrefix(p, q) THEN 0 ELSE @[q]]]

\* Slip: the entry goes, its dentry stays in the cache.
Unlink_EntryOnly(s, p) == [s EXCEPT !.list[Last(p)] = Nil]

\* Slip: both the file system and simple_unlink give the parent's reference back.
Unlink_Twice(s, p) == Forget(Drop(Drop([s EXCEPT !.list[Last(p)] = Nil], p), p), p)

\* initramfs_delete_dentry and simple_unlink.  d_delete passes the address of its pointer
\* to inode_put: the inode's count stays as it is, and a word behind the end of the dentry,
\* in another block of the heap, is counted down instead, which is not followed.
Unlink(s, p) == Forget(Drop([s EXCEPT !.list[Last(p)] = Nil], p), p)

\* remove_dentry: devices are refused.
RemoveDentry(p) ==
    LET old == Select(vfs, p, Len(p)) IN
    /\ Sound(p) /\ Bounded(old.s)
    /\ Cached(vfs, p) /\ p \in FilePaths => Live(vfs.cache[p].entry)
    /\ NoFile(IF old.ok /\ Mode(old.s, p) # "dev" THEN Unlink(old.s, p) ELSE old.s)

Next ==
    \/ \E p \in Paths : Mkdir(p) \/ RemoveDentry(p) \/ Open(p, TRUE) \/ Open(p, FALSE)
    \/ \E i \in Fd : Close(i)

Spec == Init /\ [][Next]_vars

-----------------------------------------------------------------------------
OpenOn(i) == {f \in File : file[f] = i}

\* Every file that is open is in one descriptor, and a descriptor holds a file that is
\* open: no file is lost when the table is full or the driver's open fails.
FilesHeld ==
    /\ \A i \in Fd : fd[i] # Nil => file[fd[i]] # Nil
    /\ \A f \in File : file[f] # Nil => Cardinality({i \in Fd : fd[i] = f}) = 1

\* An inode's count covers its dentry and its open files: no call frees an inode that a
\* file or a dentry still refers to, whichever of them goes first.
InodesKept ==
    /\ \A i \in Ino : vfs.inode[i].count >=
           Cardinality(OpenOn(i)) + Cardinality({p \in Paths : vfs.cache[p].ino = i})
    /\ \A p \in Paths : Cached(vfs, p) => vfs.inode[vfs.cache[p].ino] # NoInode
    /\ \A f \in File : file[f] # Nil => vfs.inode[file[f]] # NoInode

\* The count of a dentry is the number of its children in the cache, however the lookups
\* and creations below it have ended.
RefsExact ==
    \A d \in FilePaths \cup {Root} : Cached(vfs, d) =>
        vfs.refs[d] = Cardinality({p \in FilePaths : Front(p) = d /\ Cached(vfs, p)})

\* A dentry whose entry is no longer the one of its name.
Stale(p) == Cached(vfs, p) /\ vfs.cache[p].entry # vfs.list[Last(p)]
IsDir(p) == Cached(vfs, p) /\ Mode(vfs, p) = "dir"

\* The cache follows the list of entries: a dentry has an inode of its own and hangs below
\* a cached one, and it goes stale only when its entry is removed under another path, every
\* directory showing the root's entries.
CacheFollowsList ==
    /\ [](\A p, q \in Paths :
            Cached(vfs, p) /\ Cached(vfs, q) /\ p # q => vfs.cache[p].ino # vfs.cache[q].ino)
    /\ [](\A p \in FilePaths : Cached(vfs, p) => Cached(vfs, Front(p)))
    /\ [][\A p \in FilePaths : Stale(p)' /\ ~Stale(p) =>
            \E q \in FilePaths \ {p} : Last(q) = Last(p) /\ ~Cached(vfs, q)' /\ IsDir(Front(q))']_vars
=============================================================================
