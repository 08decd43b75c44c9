------------------------------- MODULE Storage -------------------------------
(***************************************************************************)
(* The storage service (applications/services/storage): client threads     *)
(* open, use, close and remove files by messages to the storage thread,    *)
(* which keeps one list of files for each of its two storages, the card    *)
(* (/ext) and the internal memory (/int); /any is the card when there is   *)
(* one.  An open of a path that is in a list waits for a close and tries   *)
(* again.  When no message comes, the thread looks after the card.         *)
(* Directories go the same way as files.  The calls that only read or      *)
(* write a file's contents are one command, "io".                          *)
(***************************************************************************)
EXTENDS Integers, Sequences, FiniteSets

CONSTANTS Clients,      \* threads, each with a File of its own
          Names,        \* paths without the prefix
          Opens,        \* the paths <<prefix, name>> that each client opens
          Calls,        \* the other calls it makes: <<command, path>>
          Nodes,        \* the addresses a node of StorageFileList may have
          MaxCalls,     \* bound: the calls of all clients, without close and free
          MaxFlips      \* bound: how often a card is put in or pulled out

Prefixes == {"ext", "int", "any", "bad"}

ASSUME StorageAssumption ==
    /\ Nodes \subseteq Nat \ {0} /\ Names # {}
    /\ MaxCalls \in Nat /\ MaxFlips \in Nat
    /\ Opens \in [Clients -> SUBSET (Prefixes \X Names)]
    /\ Calls \in [Clients -> SUBSET ({"remove", "unmount", "format"} \X (Prefixes \X Names))]

NoPath == <<"bad", CHOOSE n \in Names : TRUE>>

VARIABLES message_queue, \* requests: [client, command]
          files,         \* the nodes of both lists, by address
          file_id,       \* of every client's File; 0 in a new one
          type,          \* FileType of it
          pc,            \* where each client is
          path,          \* the prefix and the name that it passes
          flag,          \* StorageEventFlagFileClose of its event
          status,        \* storage[ST_EXT].status
          sd_was_present,\* in fact: that it was absent
          detect,        \* hal_sd_detect()
          exists,        \* the files of both file systems: <<storage, name>>
          calls, flips   \* bounded counters

clientVars == <<file_id, type, pc, path, calls>>
cardVars == <<status, sd_was_present, detect, flips>>
vars == <<message_queue, files, clientVars, flag, cardVars, exists>>

Init ==
    /\ message_queue = <<>>
    /\ files = [n \in {} |-> {}]
    /\ file_id = [c \in Clients |-> 0]
    /\ type = [c \in Clients |-> "Closed"]
    /\ pc = [c \in Clients |-> "idle"]
    /\ path = [c \in Clients |-> NoPath]
    /\ flag = [c \in Clients |-> FALSE]
    /\ detect \in BOOLEAN /\ sd_was_present = ~detect
    /\ status \in IF detect THEN {"OK", "Error", "NotReady"} ELSE {"NotReady"}
    /\ exists = {}
    /\ calls = 0 /\ flips = 0

(***************************************************************************)
(* Clients (storage_external_api.c)                                        *)
(***************************************************************************)
\* S_API_EPILOGUE: put the message and wait for its semaphore
Send(c, command, at) ==
    /\ message_queue' = Append(message_queue, [client |-> c, command |-> command])
    /\ pc' = [pc EXCEPT ![c] = at]

\* storage_file_open subscribes; a path of no storage comes from a user or a
\* host, and the CLI and the RPC take a new File for every one of those
storage_file_open(c, p) ==
    /\ pc[c] = "idle" /\ type[c] = "Closed"
    /\ calls < MaxCalls /\ calls' = calls + 1
    /\ p[1] = "bad" => file_id[c] = 0
    /\ path' = [path EXCEPT ![c] = p]
    /\ flag' = [flag EXCEPT ![c] = FALSE]
    /\ pc' = [pc EXCEPT ![c] = "open"]
    /\ UNCHANGED <<message_queue, files, file_id, type, cardVars, exists>>

storage_file_open_internal(c) ==
    /\ pc[c] = "open"
    /\ type' = [type EXCEPT ![c] = "Open"]
    /\ Send(c, "open", "opening")
    /\ UNCHANGED <<files, file_id, path, calls, flag, cardVars, exists>>

\* FSE_ALREADY_OPEN: furi_event_flag_wait, which clears the flag
Retry(c) ==
    /\ pc[c] = "refused" /\ flag[c]
    /\ flag' = [flag EXCEPT ![c] = FALSE]
    /\ pc' = [pc EXCEPT ![c] = "open"]
    /\ UNCHANGED <<message_queue, files, file_id, type, path, calls, cardVars, exists>>

Io(c) ==
    /\ pc[c] = "ready" /\ Send(c, "io", "calling")
    /\ calls < MaxCalls /\ calls' = calls + 1
    /\ UNCHANGED <<files, file_id, type, path, flag, cardVars, exists>>

storage_file_close(c) ==
    /\ pc[c] = "ready" /\ Send(c, "close", "calling")
    /\ UNCHANGED <<files, file_id, type, path, calls, flag, cardVars, exists>>

\* storage_file_free closes the file first if it is open; the next File is new
storage_file_free(c) ==
    /\ pc[c] \in {"idle", "ready"}
    /\ IF type[c] = "Open"
       THEN Send(c, "close", "freeing") /\ UNCHANGED file_id
       ELSE /\ file_id' = [file_id EXCEPT ![c] = 0]
            /\ UNCHANGED <<message_queue, pc>>
    /\ UNCHANGED <<files, type, path, calls, flag, cardVars, exists>>

\* storage_common_remove, storage_sd_unmount, storage_sd_format
CommonCall(c, command, p) ==
    /\ pc[c] = "idle"
    /\ calls < MaxCalls /\ calls' = calls + 1
    /\ path' = [path EXCEPT ![c] = p]
    /\ Send(c, command, "calling")
    /\ UNCHANGED <<files, file_id, type, flag, cardVars, exists>>

(***************************************************************************)
(* The storage thread (storage.c, storage_processing.c, storage_glue.c)    *)
(***************************************************************************)
\* storage_get_type_by_path
TypeByPath(p) ==
    IF p[1] = "any" THEN IF status = "OK" THEN "ext" ELSE "int" ELSE p[1]

\* storage_path_change_to_real_storage
X_RealPath(p) == p
RealPath(p) == <<TypeByPath(p), p[2]>>

\* storage_path_already_open: of the list of that storage
X_AlreadyOpen(p) == \E n \in DOMAIN files : files[n].type = p[1]
                                            /\ files[n].path = RealPath(p)
AlreadyOpen(p) == \E n \in DOMAIN files : files[n].type = TypeByPath(p)
                                          /\ files[n].path = RealPath(p)

\* get_storage_by_file and the loops of storage_glue.c: the nodes whose File has
\* the same file_id
Found(c) == {n \in DOMAIN files : file_id[files[n].file] = file_id[c]}

Answer(c, at) ==
    /\ message_queue' = Tail(message_queue)
    /\ pc' = [pc EXCEPT ![c] = at]

Returns(c) == Answer(c, "idle") /\ path' = [path EXCEPT ![c] = NoPath]

Request(c, command) ==
    message_queue # <<>> /\ Head(message_queue) = [client |-> c, command |-> command]

\* the path is open
OpenRefused(c) ==
    /\ Request(c, "open") /\ AlreadyOpen(path[c])
    /\ Answer(c, "refused")
    /\ UNCHANGED <<files, file_id, type, path, calls, flag, cardVars, exists>>

\* the path is of no storage
OpenInvalid(c) ==
    /\ Request(c, "open") /\ TypeByPath(path[c]) = "bad"
    /\ flag' = [flag EXCEPT ![c] = FALSE]
    /\ Answer(c, "ready")
    /\ UNCHANGED <<files, file_id, type, path, calls, cardVars, exists>>

\* may the file system do what it is asked?  A card of which an error is known
\* may or may not
Answers(t) == t = "int" \/ (t = "ext" /\ status # "NotReady" /\ detect)

\* the file gets its node before the file system is asked, and keeps it if the
\* file system refuses
OpenProcessed(c) ==
    /\ Request(c, "open")
    /\ TypeByPath(path[c]) # "bad" /\ ~AlreadyOpen(path[c])
    /\ \E n \in Nodes \ DOMAIN files, ok \in BOOLEAN :
          /\ ok => Answers(TypeByPath(path[c]))
          /\ file_id' = [file_id EXCEPT ![c] = n]
          /\ files' = [m \in DOMAIN files \cup {n} |->
                         IF m = n THEN [file |-> c, type |-> TypeByPath(path[c]),
                                        path |-> RealPath(path[c]), valid |-> ok]
                                  ELSE files[m]]
          /\ exists' = IF ok THEN exists \cup {<<TypeByPath(path[c]), path[c][2]>>} ELSE exists
    /\ flag' = [flag EXCEPT ![c] = FALSE]
    /\ Answer(c, "ready")
    /\ UNCHANGED <<type, path, calls, cardVars>>

\* the clients that are subscribed to the pubsub
Subscribed(c) == pc[c] \in {"open", "opening", "refused"}

\* the file's own node goes, whatever the file system answered
X_Removed(c, n) == IF files[n].valid THEN {n} ELSE {}
Removed(c, n) == {n}

X_Published == FALSE
Published == TRUE

\* file->type once storage_file_close has returned
X_AfterClose == "Open"
AfterClose == "Closed"

CloseProcessed(c) ==
    /\ Request(c, "close")
    /\ IF Found(c) = {}
       THEN UNCHANGED <<files, flag>>
       ELSE \E n \in Found(c) :
               /\ files' = [m \in DOMAIN files \ Removed(c, n) |-> files[m]]
               /\ flag' = [d \in Clients |-> flag[d] \/ (Published /\ Subscribed(d))]
    /\ type' = [type EXCEPT ![c] = IF pc[c] = "freeing" THEN "Closed" ELSE AfterClose]
    /\ file_id' = [file_id EXCEPT ![c] = IF pc[c] = "freeing" THEN 0 ELSE @]
    /\ Returns(c)
    /\ UNCHANGED <<calls, cardVars, exists>>

IoProcessed(c) ==
    /\ Request(c, "io")
    /\ Answer(c, "ready")
    /\ UNCHANGED <<files, file_id, type, path, calls, flag, cardVars, exists>>

RemoveProcessed(c) ==
    /\ Request(c, "remove")
    /\ \/ UNCHANGED exists
       \/ /\ ~AlreadyOpen(path[c]) /\ Answers(TypeByPath(path[c]))
          /\ exists' = exists \ {<<TypeByPath(path[c]), path[c][2]>>}
    /\ Returns(c)
    /\ UNCHANGED <<files, file_id, type, calls, flag, cardVars>>

\* FatFs takes the handles of a volume that was unmounted or made anew for invalid
Invalidated == [n \in DOMAIN files |-> IF files[n].type = "ext"
                                       THEN [files[n] EXCEPT !.valid = FALSE] ELSE files[n]]
OnInt == {f \in exists : f[1] = "int"}

UnmountProcessed(c) ==
    /\ Request(c, "unmount")
    /\ status' = "NotReady"
    /\ files' = IF status = "NotReady" THEN files ELSE Invalidated
    /\ Returns(c)
    /\ UNCHANGED <<file_id, type, calls, flag, sd_was_present, detect, flips, exists>>

FormatProcessed(c) ==
    /\ Request(c, "format")
    /\ IF status = "NotReady"
       THEN UNCHANGED <<status, files, exists>>
       ELSE /\ status' \in IF detect THEN {"OK", "Error"} ELSE {"Error"}
            /\ files' = Invalidated
            /\ exists' = OnInt
    /\ Returns(c)
    /\ UNCHANGED <<file_id, type, calls, flag, sd_was_present, detect, flips>>

\* storage_ext_tick_internal: the card was absent and is there; at the end it may
\* be gone again, and at the loop's start it may have been gone for a moment
Mount ==
    /\ sd_was_present /\ detect
    /\ \/ /\ status' \in {"OK", "Error", "NotReady"}
          /\ sd_was_present' = FALSE
          /\ UNCHANGED <<detect, flips>>
       \/ /\ flips < MaxFlips /\ flips' = flips + 1
          /\ status' = "NotReady"
          /\ detect' = FALSE
          /\ UNCHANGED sd_was_present
    /\ exists' \in {OnInt \cup s : s \in SUBSET ({"ext"} \X Names)}
    /\ files' = Invalidated

Unmount ==
    /\ ~sd_was_present /\ ~detect
    /\ sd_was_present' = TRUE
    /\ status' = "NotReady"
    /\ files' = Invalidated
    /\ UNCHANGED <<detect, flips, exists>>

\* no message for STORAGE_TICK
storage_tick ==
    /\ message_queue = <<>>
    /\ \/ Mount
       \/ Unmount
       \/ /\ sd_was_present # detect
          /\ UNCHANGED <<sd_was_present, status, detect, flips, files, exists>>
    /\ UNCHANGED <<message_queue, clientVars, flag>>

\* somebody puts a card in or pulls it out
Flip ==
    /\ flips < MaxFlips /\ flips' = flips + 1
    /\ detect' = ~detect
    /\ UNCHANGED <<message_queue, files, clientVars, flag, status, sd_was_present, exists>>

ClientStep(c) ==
    \/ storage_file_open_internal(c) \/ Retry(c)
    \/ Io(c) \/ storage_file_close(c) \/ storage_file_free(c)
    \/ \E p \in Opens[c] : storage_file_open(c, p)
    \/ \E call \in Calls[c] : CommonCall(c, call[1], call[2])

storage_process_message(c) ==
    \/ OpenRefused(c) \/ OpenInvalid(c) \/ OpenProcessed(c) \/ CloseProcessed(c) \/ IoProcessed(c)
    \/ RemoveProcessed(c) \/ UnmountProcessed(c) \/ FormatProcessed(c)

Next ==
    \/ \E c \in Clients : ClientStep(c) \/ storage_process_message(c)
    \/ storage_tick
    \/ Flip

\* the storage thread serves its queue; a client goes on with an open that it
\* has begun, and closes or frees a file when it is done with it
Fairness ==
    /\ WF_vars(\E c \in Clients : storage_process_message(c))
    /\ \A c \in Clients : WF_vars(storage_file_open_internal(c) \/ Retry(c))
    /\ \A c \in Clients : WF_vars(storage_file_close(c) \/ storage_file_free(c))

Spec == Init /\ [][Next]_vars /\ Fairness

(***************************************************************************)
(* Properties                                                              *)
(***************************************************************************)
Commands == {"open", "io", "close", "remove", "unmount", "format"}
Entries == [file : Clients, type : {"ext", "int"}, path : Prefixes \X Names, valid : BOOLEAN]

TypeOK ==
    /\ message_queue \in Seq([client : Clients, command : Commands])
    /\ DOMAIN files \subseteq Nodes /\ \A n \in DOMAIN files : files[n] \in Entries
    /\ file_id \in [Clients -> Nodes \cup {0}]
    /\ type \in [Clients -> {"Closed", "Open"}]
    /\ pc \in [Clients -> {"idle", "open", "opening", "refused", "ready", "calling", "freeing"}]
    /\ path \in [Clients -> Prefixes \X Names]
    /\ flag \in [Clients -> BOOLEAN]
    /\ status \in {"OK", "Error", "NotReady"}
    /\ sd_was_present \in BOOLEAN /\ detect \in BOOLEAN
    /\ exists \subseteq {"ext", "int"} \X Names
    /\ calls \in 0 .. MaxCalls /\ flips \in 0 .. MaxFlips

\* the client's open has returned, with success or not, and it has not closed
Holds(c) ==
    type[c] = "Open" /\ pc[c] \in {"ready", "calling", "freeing"} /\ path[c][1] # "bad"

\* The lists have exactly one node for every file whose open has returned, also
\* one that the file system refused or whose card is gone, and none whose File
\* was freed: storage_glue.c reads the file_id through every node's File.
ListExact ==
    \A c \in Clients : {n \in DOMAIN files : files[n].file = c}
                           = IF Holds(c) THEN {file_id[c]} ELSE {}

\* A File is known by the address of its node, which a later node may have: a
\* call or a close never reaches another client's file.
ReachesOwnFile ==
    \A i \in DOMAIN message_queue :
        message_queue[i].command \in {"io", "close"} =>
            \A n \in Found(message_queue[i].client) : files[n].file = message_queue[i].client

\* A file of a file system is open at most once, whatever prefix it was opened by.
OneHolder ==
    \A m, n \in DOMAIN files :
        m # n => <<files[m].type, files[m].path[2]>> # <<files[n].type, files[n].path[2]>>

\* An open that was refused and has no event to wake it up waits for a file
\* that is still open: no close is missed between the answer and the wait.
NoLostWakeup ==
    \A c \in Clients :
        pc[c] = "refused" /\ ~flag[c] =>
            \E n \in DOMAIN files : /\ files[n].path[2] = path[c][2]
                                     /\ path[c][1] \in {"any", files[n].type}

\* A file is not removed while it is open, by whatever prefix.
OpenFileExists ==
    \A n \in DOMAIN files :
        files[n].valid => <<files[n].type, files[n].path[2]>> \in exists

\* What the clients see of all this: the files that each holds, and may still use.
Handle(c) == LET e == files[file_id[c]] IN
    [client |-> c, file |-> <<e.type, e.path[2]>>, valid |-> e.valid]
Table == INSTANCE FileTable WITH
             disk <- exists,
             held <- {Handle(c) : c \in {d \in Clients : Holds(d)}}
ImplementsFileTable == Table!TSpec

\* An open returns, as long as the files that are open are closed and the others
\* do not take them again forever.
OpenReturns == \A c \in Clients : pc[c] = "open" ~> pc[c] = "ready"
===============================================================================
