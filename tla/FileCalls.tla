----------------------------- MODULE FileCalls -----------------------------
(***************************************************************************)
(* The calls that reach the filesystem, with the answer each one gives:    *)
(* the file system calls of syscall.c and the file commands of the shell.  *)
(* FileSystem has the steps that change something; here every call also    *)
(* has the ways it is refused, and `ret' is what the last call answered.   *)
(*                                                                         *)
(* A path is copied into a local buffer before use, so paths that are too  *)
(* long or null are refused like any other invalid path.  The fs_file_t of *)
(* sys_open, shell_cat and fs_create is a local of the call; the handles   *)
(* of FileSystem are those of callers that own one.                        *)
(***************************************************************************)
EXTENDS FileSystem

CONSTANTS
  KERNEL_BUF,   \* sectors that fit the buffer of sys_read and sys_write (2 in the code)
  LIST_MAX      \* entries that fit the buffer of a listing (32 in the code)

ASSUME FileCallsAssumption == KERNEL_BUF \in Nat \ {0} /\ LIST_MAX \in Nat \ {0}

VARIABLE ret    \* "ok", "error", or "busy" during a transfer

callVars == <<vars, ret>>

CallInit == Init /\ ret = "ok"

-----------------------------------------------------------------------------
(* A call that only looks, and one that is refused. *)
Answer(answer) == Ready /\ ret' = answer /\ UNCHANGED vars
Refuse(reason) == reason /\ Answer("error")

(* The directory is not asked for its room. *)
BadCreated == "ok"

(* What a creation answers: a full directory gives the cluster back. *)
Created == IF FreeEntries = {} THEN "error" ELSE "ok"

(* A creation is refused for its path, or because the disk is full. *)
CannotCreate(path) ==
  \/ ~validate_path(path)
  \/ ~Found(path) /\ FreeClusters = {}

(* sys_create and shell_touch; for a name that exists nothing is done.     *)
sys_create(path) ==
  \/ validate_path(path) /\ Found(path) /\ Answer("ok")
  \/ fs_create(path) /\ ret' = Created
  \/ fs_open_create_subdir(path) /\ ret' = "error"
  \/ Refuse(CannotCreate(path))

(* sys_open, with and without FS_MODE_CREATE; shell_cat opens without it,  *)
(* reads a file whose size is 0 and closes it.                             *)
sys_open(path, create) ==
  IF create THEN sys_create(path)
  ELSE Answer(IF validate_path(path) /\ Found(path) THEN "ok" ELSE "error")

shell_cat(path) == sys_open(path, FALSE)

(* fs_open with a handle the caller keeps. *)
open_handle(path, mode, h) ==
  \/ fs_open_existing(path, mode, h) /\ ret' = "ok"
  \/ fs_open_create(path, mode, h) /\ ret' = Created

sys_mkdir(path) ==
  \/ fs_mkdir(path) /\ ret' = Created
  \/ Refuse(CannotCreate(path) \/ Found(path))

-----------------------------------------------------------------------------
(* The chain is gone before the entry is looked for, so a removal that     *)
(* does not find the entry answers an error; one that hangs never answers. *)
Removed(path) ==
  IF hung' THEN "busy"
  ELSE IF Named(raw_name(path)) = {} THEN "error" ELSE "ok"

Removable(path, directory) ==
  validate_path(path) /\ Found(path) /\ find_directory_entry(path).directory = directory

sys_delete(path) ==
  \/ fs_delete(path) /\ ret' = Removed(path)
  \/ Refuse(~Removable(path, FALSE))

sys_rmdir(path) ==
  \/ fs_rmdir(path) /\ ret' = Removed(path)
  \/ Refuse(~Removable(path, TRUE))

sys_rename(old_path, new_path) ==
  \/ fs_rename(old_path, new_path) /\ ret' = "ok"
  \/ Refuse(\/ ~validate_path(old_path) \/ ~validate_path(new_path)
            \/ ~Found(old_path) \/ Found(new_path)
            \/ Named(raw_name(old_path)) = {})

-----------------------------------------------------------------------------
IsDirectory(path) == Found(path) /\ find_directory_entry(path).directory

(* "." is a valid path that no directory has for its name in find_entry.   *)
sys_chdir(path) ==
  \/ fs_chdir(path) /\ ret' = "ok"
  \/ Refuse(\/ ~validate_path(path)
            \/ path = <<"..">> /\ current_directory = Root
            \/ path = <<".">>
            \/ path \notin Special /\ ~IsDirectory(path))

(* What fs_listdir shows of the root: the first max_entries in use. *)
fs_listdir(max_entries) ==
  {root_dir[i] : i \in {j \in UsedEntries :
                         Cardinality({k \in UsedEntries : k < j}) < max_entries}}

(* sys_listdir and shell_ls; shell_ls passes the current directory.  What  *)
(* they print of a subdirectory is read from a buffer the sector driver    *)
(* never fills.                                                            *)
sys_listdir(path) ==
  Answer(IF path = Root \/ IsDirectory(path) THEN "ok" ELSE "error")

shell_ls == sys_listdir(current_directory)

(* sys_getcwd and shell_pwd: the directory always fits the buffer. *)
sys_getcwd == Answer("ok")

fs_exists(path) == Answer(IF Found(path) THEN "ok" ELSE "error")

(* The figures fs_get_stats recomputes are only printed. *)
shell_fs_info == Answer("ok")

-----------------------------------------------------------------------------
sys_close(h) ==
  \/ fs_close(h) /\ ret' = "ok"
  \/ Refuse(~file[h].valid)

(* At the end of the file 0 is answered; a read of more than is left is    *)
(* cut to what is left.                                                    *)
sys_read(h, n) ==
  \/ fs_read(h, Min({n, KERNEL_BUF})) /\ ret' = "busy"
  \/ file[h].valid /\ FS_READ \in file[h].mode /\ file[h].offset = file[h].size /\ Answer("ok")
  \/ Refuse(~file[h].valid \/ FS_READ \notin file[h].mode)

sys_write(h, n) ==
  \/ fs_write(h, Min({n, KERNEL_BUF})) /\ ret' = "busy"
  \/ Refuse(~file[h].valid \/ FS_WRITE \notin file[h].mode)

(* Every sector was written, and a cluster for the next one is missing. *)
DiskFull ==
  /\ io.op = FS_WRITE
  /\ (io.sector + 1) % 2 = 0
  /\ fat[io.cluster] >= LAST
  /\ FreeClusters = {}

transfer ==
  /\ IoStep
  /\ ret' = IF DiskFull THEN "error" ELSE IF io' = NoIo THEN "ok" ELSE "busy"

sys_seek(h, offset) ==
  \/ fs_seek(h, offset) /\ ret' = "ok"
  \/ Refuse(~file[h].valid \/ offset > file[h].size)

sys_tell(h) == Answer(IF file[h].valid THEN "ok" ELSE "error")

-----------------------------------------------------------------------------
(* The shell's commands put a slash before their argument; cd passes three *)
(* of them as they are, and does not ask for ".." in the root.             *)
FullPath(arg) == Root \o arg
Args == {Strip(path) : path \in Paths \ {Root}}

shell_cd(arg) ==
  \/ arg = <<"..">> /\ current_directory = Root /\ Answer("error")
  \/ /\ arg # <<"..">> \/ current_directory # Root
     /\ sys_chdir(IF arg \in Special THEN arg ELSE FullPath(arg))

shell_command(arg) ==
  LET path == FullPath(arg)
  IN  \/ shell_cat(path) \/ sys_create(path) \/ sys_delete(path)
      \/ sys_mkdir(path) \/ sys_rmdir(path)

CallNext ==
  \/ \E path \in Paths :
       \/ \E create \in BOOLEAN : sys_open(path, create)
       \/ \E mode \in Modes, h \in Handles : open_handle(path, mode, h)
       \/ sys_create(path) \/ sys_mkdir(path) \/ sys_delete(path) \/ sys_rmdir(path)
       \/ fs_exists(path)
  \/ \E path \in Paths \cup {Root} : sys_chdir(path) \/ sys_listdir(path)
  \/ \E old_path, new_path \in Paths : sys_rename(old_path, new_path)
  \/ \E h \in Handles :
       \/ sys_close(h) \/ sys_tell(h)
       \/ \E n \in 1 .. MAX_SIZE : sys_read(h, n) \/ sys_write(h, n)
       \/ \E offset \in 0 .. MAX_SIZE : sys_seek(h, offset)
  \/ transfer
  \/ \E arg \in Args : shell_command(arg)
  \/ \E arg \in Args \cup {Root} : shell_cd(arg)
  \/ shell_ls \/ sys_getcwd \/ shell_fs_info
  \/ fs_format /\ ret' = "ok"

CallSpec == CallInit /\ [][CallNext]_callVars

-----------------------------------------------------------------------------
(* Properties *)

Taken == {c \in 2 .. CLUSTERS - 1 : fat[c] # FREE_CLUSTER}

(* A file is created with a subdirectory as the current directory. *)
CreatesInSubdir ==
  \E path \in Paths \cup {FullPath(arg) : arg \in Args} : fs_open_create_subdir(path)

(* For a strict client, a cluster leaks only by a file creation inside a   *)
(* subdirectory: every other call, failing ones included, gives back what  *)
(* it does not keep.                                                       *)
LeaksOnlyInSubdirs ==
  [][client = "strict" /\ ~CreatesInSubdir =>
       UNCHANGED <<fat, root_dir>> \/ Leaked' \subseteq Leaked]_vars

(* A call that answers an error leaves the directory and the current       *)
(* directory alone, and the handles too unless it is a write that filled   *)
(* the disk.  It keeps a cluster only if it tried to create a file in a    *)
(* subdirectory, and loses one only by a removal that a strict client does *)
(* not make.  This holds for fs_open, fs_mkdir, fs_delete, fs_rename,      *)
(* fs_chdir and fs_write, at every point where they give up.               *)
FailuresOnlyLeak ==
  [][ret' = "error" =>
       /\ UNCHANGED <<root_dir, current_directory>>
       /\ io = NoIo => UNCHANGED file
       /\ CreatesInSubdir \/ Taken' \subseteq Taken
       /\ client = "strict" => Taken \subseteq Taken']_callVars

(* What is reported as done can be seen: a name that is not found after a  *)
(* call was not reported created by it; a new directory is in a listing    *)
(* that has room; clusters are given up by a call that succeeds only with  *)
(* their entry, or all of them by fs_format; a directory that is entered   *)
(* can be listed.                                                          *)
SuccessIsVisible ==
  [][ret' = "ok" =>
       /\ \A path \in Paths :
            /\ ~Found(path)' => ~sys_create(path)
            /\ /\ Cardinality(UsedEntries') <= LIST_MAX
               /\ \A e \in fs_listdir(LIST_MAX)' : ~e.directory \/ e.name # lookup_name(path)
               => ~sys_mkdir(path)
       /\ ~(Taken \subseteq Taken') => UsedEntries' = {} \/ UsedEntries' # UsedEntries
       /\ UNCHANGED current_directory \/ current_directory' = Root \/ IsDirectory(current_directory)'
    ]_callVars

(* Whoever calls, only fs_format takes the entry of the current directory  *)
(* away.  fs_rmdir and fs_rename, which do not ask whether the directory   *)
(* they are given is the current one, look for an entry with the slash in  *)
(* its name and leave this one.                                            *)
CwdStays ==
  [][IsDirectory(current_directory) =>
       fs_format \/ current_directory' = Root \/ IsDirectory(current_directory)']_callVars
=============================================================================
