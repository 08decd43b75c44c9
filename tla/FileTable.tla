------------------------------ MODULE FileTable ------------------------------
(***************************************************************************)
(* What the storage service promises those who open files                  *)
(* (applications/services/storage/storage.h): a file is opened by one      *)
(* client at a time, under whatever path, and is not removed meanwhile;    *)
(* when the card goes, its open files are lost, and theirs until closed.   *)
(* Messages, lists, addresses and events of the service are all gone.      *)
(***************************************************************************)
EXTENDS Naturals

CONSTANTS Clients, Names

VARIABLES
  disk,        \* the files of the card and of the internal memory
  held         \* the open files: [client, file, valid]

tvars == <<disk, held>>

TInit == disk = {} /\ held = {}

Busy(f)    == \E h \in held : h.file = f
HasFile(c) == \E h \in held : h.client = c

\* The file system may refuse; the file is the client's all the same.
TOpen(c, f, ok) ==
  /\ ~Busy(f) /\ ~HasFile(c)
  /\ held' = held \cup {[client |-> c, file |-> f, valid |-> ok]}
  /\ disk' = IF ok THEN disk \cup {f} ELSE disk

TClose(c) ==
  /\ HasFile(c)
  /\ held' = {h \in held : h.client # c}
  /\ UNCHANGED disk

TRemove(f) ==
  /\ ~Busy(f)
  /\ disk' = disk \ {f}
  /\ UNCHANGED held

\* The card is pulled out, unmounted, formatted, or another one is put in.
TCard ==
  /\ held' = {[h EXCEPT !.valid = h.valid /\ h.file[1] # "ext"] : h \in held}
  /\ \E s \in SUBSET ({"ext"} \X Names) : disk' = {f \in disk : f[1] # "ext"} \cup s

TNext ==
  \/ \E c \in Clients, f \in {"ext", "int"} \X Names, ok \in BOOLEAN : TOpen(c, f, ok)
  \/ \E c \in Clients : TClose(c)
  \/ \E f \in {"ext", "int"} \X Names : TRemove(f)
  \/ TCard

TSpec == TInit /\ [][TNext]_tvars
==============================================================================
