------------------------------- MODULE Initrd -------------------------------
(***************************************************************************)
(* kernel/src/fs/initrd.c: unpacking the boot archive into the root file   *)
(* system.  It runs before there is a second thread, so it is a function   *)
(* on file system states.                                                  *)
(*                                                                         *)
(* An archive is a sequence of entries [name, kind, size]: the components  *)
(* of the name, REG, DIR or another type, and the length of the data.      *)
(* Parsing the cpio header is left out: an entry with a bad header ends    *)
(* the unpacking with an error, kind "bad" here.  There is memory for      *)
(* "room" nodes and buffers, and the unpacking ends when it runs out.      *)
(***************************************************************************)
EXTENDS Vfs

\* initrd_normalize_path: leading "./" are dropped, "." alone is nothing.
initrd_normalize_path(name) ==
    LET k == CHOOSE i \in 0..Len(name) : /\ \A j \in 1..i : name[j] = "."
                                         /\ i < Len(name) => name[i + 1] # "."
    IN  SubSeq(name, k + 1, Len(name))

\* The caller drops the vnode that a successful call returned.
Dropped(r) == IF r.rc = 0 THEN Rc(0, vnode_release(r.s, r.v), Null) ELSE r

\* initrd_ensure_dir: what is there already is left alone, file or not.
initrd_ensure_dir(s, path, room) ==
    LET ensure(found) == Dropped(IF found.rc = 0 THEN found ELSE vfs_create(s, path, DIR, room))
    IN  IF path = <<>> THEN Rc(0, s, Null) ELSE ensure(vfs_lookup(s, s.root, path, FALSE))

\* initrd_ensure_parent_dirs: every proper prefix, shortest first.
EnsureTurns(s, path, room) ==
    LET then(r, i) == IF r.rc # 0 THEN r ELSE initrd_ensure_dir(r.s, SubSeq(path, 1, i), room)
        upto[i \in 0..Len(path)] ==
            IF i = 0 THEN Rc(0, s, Null) ELSE then(upto[i - 1], i)
    IN  upto
initrd_ensure_parent_dirs(s, path, room) == EnsureTurns(s, path, room)[Len(path) - 1]

initrd_unpack_dir(s, path, room) ==
    LET in(up) == IF up.rc # 0 THEN up ELSE initrd_ensure_dir(up.s, path, room)
    IN  in(initrd_ensure_parent_dirs(s, path, room))

\* The file is released whether or not it could be written.
initrd_unpack_file(s, path, size, room) ==
    LET done(w)    == Rc(w.rc, vnode_release(w.s, w.v), Null)
        fill(made) == IF made.rc # 0 \/ size = 0 THEN Dropped(made)
                      ELSE done(vfs_write(made.s, made.v, 0, size, 1, room))
        in(up)     == IF up.rc # 0 THEN up ELSE fill(vfs_create(up.s, path, REG, room))
    IN  in(initrd_ensure_parent_dirs(s, path, room))

\* One turn of the loop of initrd_unpack.
UnpackEntry(s, e, room) ==
    LET unpack(path) == IF path = <<>> THEN Rc(0, s, Null)
                        ELSE IF e.kind = DIR THEN initrd_unpack_dir(s, path, room)
                        ELSE IF e.kind = REG THEN initrd_unpack_file(s, path, e.size, room)
                        ELSE Rc(0, s, Null)
    IN  IF e.kind = "bad" THEN Rc(-1, s, Null) ELSE unpack(initrd_normalize_path(e.name))

\* Variant: the loop ends, not continues, at an entry that normalises to nothing.
UnpackStopsEarly(s, archive, room) == UnpackEntry(s, archive[1], room)

\* The loop of initrd_unpack: its result after each entry.
UnpackTurns(s, archive, room) ==
    LET then(r, e) == IF r.rc # 0 THEN r ELSE UnpackEntry(r.s, e, room)
        upto[i \in 0..Len(archive)] ==
            IF i = 0 THEN Rc(0, s, Null) ELSE then(upto[i - 1], archive[i])
    IN  upto
initrd_unpack(s, archive, room) == UnpackTurns(s, archive, room)[Len(archive)]
=============================================================================
