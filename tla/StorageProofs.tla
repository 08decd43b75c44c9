---------------------------- MODULE StorageProofs ----------------------------
(***************************************************************************)
(* Theorems about Storage: the safety properties, for any number of        *)
(* clients, names and nodes.                                               *)
(***************************************************************************)
EXTENDS Storage, SequenceTheorems, TLAPS

(* What a request in the queue says of its client.                         *)
ItemOK(command, p, t) ==
    /\ command = "open" => p = "opening"
    /\ command # "open" => p \in {"calling", "freeing"}
    /\ command \in {"io", "close"} => t = "Open"
    /\ command \in {"remove", "unmount", "format"} => t = "Closed"
    /\ command # "close" => p # "freeing"

QueueInv ==
    /\ \A i, j \in DOMAIN message_queue :
          message_queue[i].client = message_queue[j].client => i = j
    /\ \A i \in DOMAIN message_queue :
          ItemOK(message_queue[i].command, pc[message_queue[i].client],
                 type[message_queue[i].client])

Inside(c) ==
    \/ pc[c] \in {"open", "opening", "refused", "ready", "freeing"}
    \/ pc[c] = "calling" /\ type[c] = "Open"

ClientInv ==
    \A c \in Clients :
        /\ pc[c] = "idle" => type[c] = "Closed"
        /\ pc[c] \in {"opening", "refused", "ready", "freeing"} => type[c] = "Open"
        /\ path[c][1] = "bad" /\ Inside(c) => file_id[c] = 0

(* A node and its File point to each other.                                *)
FilesInv ==
    /\ \A n \in DOMAIN files : /\ Holds(files[n].file) /\ file_id[files[n].file] = n
                               /\ files[n].path[1] = files[n].type
    /\ \A c \in Clients : Holds(c) => file_id[c] \in DOMAIN files /\ files[file_id[c]].file = c

IInv == TypeOK /\ QueueInv /\ ClientInv /\ FilesInv /\ OneHolder /\ NoLostWakeup /\ OpenFileExists

(***************************************************************************)
(* The queue                                                               *)
(***************************************************************************)
LEMMA ItemsTyped ==
    ASSUME TypeOK
    PROVE  \A i \in DOMAIN message_queue : /\ message_queue[i].client \in Clients
                                           /\ message_queue[i].command \in Commands
<1>1. message_queue \in Seq([client : Clients, command : Commands])
  BY DEF TypeOK
<1> TAKE i \in DOMAIN message_queue
<1>2. i \in 1 .. Len(message_queue)
  BY <1>1
<1>3. message_queue[i] \in [client : Clients, command : Commands]
  BY <1>1, <1>2, ElementOfSeq
<1> QED
  BY <1>3

LEMMA HeadIs ==
    ASSUME TypeOK, NEW c \in Clients, NEW command, Request(c, command)
    PROVE  /\ 1 \in DOMAIN message_queue
           /\ message_queue[1].client = c /\ message_queue[1].command = command
<1>1. message_queue \in Seq([client : Clients, command : Commands]) /\ message_queue # <<>>
  BY DEF TypeOK, Request
<1>2. 1 \in DOMAIN message_queue /\ Head(message_queue) = message_queue[1]
  BY <1>1
<1> QED
  BY <1>2 DEF Request

LEMMA TailIs ==
    ASSUME TypeOK, message_queue # <<>>, message_queue' = Tail(message_queue)
    PROVE  /\ message_queue' \in Seq([client : Clients, command : Commands])
           /\ \A i \in DOMAIN message_queue' :
                 /\ i + 1 \in DOMAIN message_queue /\ i + 1 # 1
                 /\ message_queue'[i] = message_queue[i + 1] /\ i \in Nat
<1>1. message_queue \in Seq([client : Clients, command : Commands])
  BY DEF TypeOK
<1> QED
  BY <1>1

LEMMA AnswerKeepsQueue ==
    ASSUME TypeOK, QueueInv, NEW c \in Clients, NEW command, Request(c, command),
           message_queue' = Tail(message_queue),
           \A d \in Clients \ {c} : pc'[d] = pc[d] /\ type'[d] = type[d]
    PROVE  QueueInv'
<1>1. message_queue # <<>>
  BY DEF Request
<1>2. \A i \in DOMAIN message_queue' :
         /\ i + 1 \in DOMAIN message_queue /\ i + 1 # 1
         /\ message_queue'[i] = message_queue[i + 1] /\ i \in Nat
  BY <1>1, TailIs
<1>3. \A i \in DOMAIN message_queue : message_queue[i].client \in Clients
  BY ItemsTyped
<1>4. 1 \in DOMAIN message_queue /\ message_queue[1].client = c
  BY HeadIs
<1>5. \A i, j \in DOMAIN message_queue' :
         message_queue'[i].client = message_queue'[j].client => i = j
  <2> SUFFICES ASSUME NEW i \in DOMAIN message_queue', NEW j \in DOMAIN message_queue',
                      message_queue'[i].client = message_queue'[j].client
               PROVE  i = j
    OBVIOUS
  <2>1. i + 1 = j + 1
    BY <1>2 DEF QueueInv
  <2> QED
    BY <1>2, <2>1
<1>6. \A i \in DOMAIN message_queue' : message_queue'[i].client \in Clients \ {c}
  BY <1>2, <1>3, <1>4 DEF QueueInv
<1>7. \A i \in DOMAIN message_queue' :
         ItemOK(message_queue'[i].command, pc'[message_queue'[i].client],
                type'[message_queue'[i].client])
  BY <1>2, <1>6 DEF QueueInv
<1> QED
  BY <1>5, <1>7 DEF QueueInv

LEMMA SendKeepsQueue ==
    ASSUME TypeOK, QueueInv, NEW c \in Clients, NEW command \in Commands, NEW at,
           Send(c, command, at), pc[c] \in {"idle", "open", "ready"},
           \A d \in Clients \ {c} : type'[d] = type[d],
           ItemOK(command, at, type'[c])
    PROVE  QueueInv' /\ message_queue' \in Seq([client : Clients, command : Commands])
<1> DEFINE q == message_queue
           m == [client |-> c, command |-> command]
<1>1. q \in Seq([client : Clients, command : Commands])
  BY DEF TypeOK
<1>2. q' = Append(q, m) /\ m \in [client : Clients, command : Commands]
  BY DEF Send
<1>3. q' \in Seq([client : Clients, command : Commands])
  BY <1>1, <1>2
<1>4. \A i \in DOMAIN q' : (i \in DOMAIN q /\ q'[i] = q[i]) \/ (i = Len(q) + 1 /\ q'[i] = m)
  BY <1>1, <1>2
<1>5. \A d \in Clients \ {c} : pc'[d] = pc[d]
  BY DEF Send, TypeOK
<1>6. pc'[c] = at
  BY DEF Send, TypeOK
<1>7. \A i \in DOMAIN q : q[i].client \in Clients \ {c}
  <2> SUFFICES ASSUME NEW i \in DOMAIN q PROVE q[i].client \in Clients \ {c}
    OBVIOUS
  <2>1. q[i].client \in Clients /\ q[i].command \in Commands
    BY ItemsTyped
  <2>2. ItemOK(q[i].command, pc[q[i].client], type[q[i].client])
    BY DEF QueueInv
  <2> QED
    BY <2>1, <2>2 DEF ItemOK
<1>8. m.client = c /\ m.command = command
  OBVIOUS
<1> HIDE DEF m
<1>9. \A i, j \in DOMAIN q' : q'[i].client = q'[j].client => i = j
  BY <1>4, <1>7, <1>8 DEF QueueInv
<1>10. \A i \in DOMAIN q' : ItemOK(q'[i].command, pc'[q'[i].client], type'[q'[i].client])
  BY <1>4, <1>5, <1>6, <1>7, <1>8 DEF QueueInv
<1> QED
  BY <1>3, <1>9, <1>10 DEF QueueInv

(***************************************************************************)
(* Steps that change no list                                               *)
(***************************************************************************)
LEMMA SameFiles ==
    ASSUME IInv, UNCHANGED <<files, file_id>>,
           \A c \in Clients : Holds(c)' <=> Holds(c)
    PROVE  FilesInv' /\ OneHolder'
<1>1. FilesInv'
  BY DEF IInv, FilesInv, TypeOK, Entries
<1>2. OneHolder'
  BY DEF IInv, OneHolder
<1> QED
  BY <1>1, <1>2

LEMMA OpenStep ==
    ASSUME IInv, StorageAssumption, NEW c \in Clients, NEW p \in Opens[c], storage_file_open(c, p)
    PROVE  IInv'
<1>1. p \in Prefixes \X Names
  BY DEF StorageAssumption
<1>2. TypeOK'
  <2>1. calls' \in 0 .. MaxCalls
    BY DEF IInv, TypeOK, storage_file_open, StorageAssumption
  <2> QED
    BY <1>1, <2>1 DEF IInv, TypeOK, storage_file_open, cardVars
<1>3. QueueInv'
  <2>1. \A i \in DOMAIN message_queue : message_queue[i].client \in Clients \ {c}
    BY ItemsTyped DEF IInv, QueueInv, ItemOK, storage_file_open, Commands
  <2> QED
    BY <2>1 DEF IInv, QueueInv, storage_file_open, TypeOK
<1>4. ClientInv'
  BY DEF IInv, ClientInv, Inside, storage_file_open, TypeOK
<1>5. FilesInv' /\ OneHolder'
  BY SameFiles DEF IInv, TypeOK, Holds, storage_file_open
<1>6. NoLostWakeup' /\ OpenFileExists'
  BY DEF IInv, TypeOK, NoLostWakeup, OpenFileExists, storage_file_open
<1> QED
  BY <1>2, <1>3, <1>4, <1>5, <1>6 DEF IInv

LEMMA OpenInternalStep ==
    ASSUME IInv, NEW c \in Clients, storage_file_open_internal(c)
    PROVE  IInv'
<1>1. QueueInv' /\ message_queue' \in Seq([client : Clients, command : Commands])
  <2>1. /\ Send(c, "open", "opening") /\ pc[c] = "open" /\ type'[c] = "Open"
        /\ \A d \in Clients \ {c} : type'[d] = type[d]
    BY DEF storage_file_open_internal, IInv, TypeOK
  <2>2. ItemOK("open", "opening", type'[c]) /\ "open" \in Commands
    BY <2>1 DEF ItemOK, Commands
  <2> QED
    BY <2>1, <2>2, SendKeepsQueue DEF IInv
<1>2. TypeOK'
  BY <1>1 DEF IInv, TypeOK, storage_file_open_internal, Send, cardVars
<1>3. ClientInv'
  BY DEF IInv, ClientInv, Inside, storage_file_open_internal, Send, TypeOK
<1>4. FilesInv' /\ OneHolder'
  BY SameFiles DEF IInv, TypeOK, Holds, storage_file_open_internal, Send
<1>5. NoLostWakeup' /\ OpenFileExists'
  BY DEF IInv, TypeOK, NoLostWakeup, OpenFileExists, storage_file_open_internal, Send
<1> QED
  BY <1>1, <1>2, <1>3, <1>4, <1>5 DEF IInv

LEMMA RetryStep ==
    ASSUME IInv, NEW c \in Clients, Retry(c) PROVE IInv'
<1>1. TypeOK'
  BY DEF IInv, TypeOK, Retry, cardVars
<1>2. QueueInv'
  <2>1. \A i \in DOMAIN message_queue : message_queue[i].client \in Clients \ {c}
    BY ItemsTyped DEF IInv, QueueInv, ItemOK, Retry, Commands
  <2> QED
    BY <2>1 DEF IInv, QueueInv, Retry, TypeOK
<1>3. ClientInv'
  BY DEF IInv, ClientInv, Inside, Retry, TypeOK
<1>4. FilesInv' /\ OneHolder'
  BY SameFiles DEF IInv, TypeOK, Holds, Retry
<1>5. NoLostWakeup' /\ OpenFileExists'
  BY DEF IInv, TypeOK, NoLostWakeup, OpenFileExists, Retry
<1> QED
  BY <1>1, <1>2, <1>3, <1>4, <1>5 DEF IInv

(* io, close, or the close in free, of an open file                        *)
LEMMA CallStep ==
    ASSUME IInv, NEW c \in Clients, NEW command \in {"io", "close"}, NEW at \in {"calling", "freeing"},
           command = "io" => at = "calling",
           pc[c] = "ready", Send(c, command, at), calls' \in 0 .. MaxCalls,
           UNCHANGED <<files, file_id, type, path, flag, cardVars, exists>>
    PROVE  IInv'
<1>1. type[c] = "Open"
  BY DEF IInv, ClientInv
<1>2. QueueInv' /\ message_queue' \in Seq([client : Clients, command : Commands])
  <2>1. ItemOK(command, at, type'[c]) /\ command \in Commands
    BY <1>1 DEF ItemOK, Commands
  <2> QED
    BY <2>1, SendKeepsQueue DEF IInv
<1>3. TypeOK'
  BY <1>2 DEF IInv, TypeOK, Send, cardVars
<1>4. ClientInv'
  BY DEF IInv, ClientInv, Inside, Send, TypeOK
<1>5. FilesInv' /\ OneHolder'
  BY SameFiles DEF IInv, TypeOK, Holds, Send
<1>6. NoLostWakeup' /\ OpenFileExists'
  BY DEF IInv, TypeOK, NoLostWakeup, OpenFileExists, Send
<1> QED
  BY <1>2, <1>3, <1>4, <1>5, <1>6 DEF IInv

LEMMA FreeStep ==
    ASSUME IInv, NEW c \in Clients, storage_file_free(c) PROVE IInv'
<1>1. CASE type[c] = "Open"
  <2>1. pc[c] = "ready" /\ Send(c, "close", "freeing") /\ calls' \in 0 .. MaxCalls
        /\ UNCHANGED <<files, file_id, type, path, flag, cardVars, exists>>
    BY <1>1 DEF IInv, ClientInv, TypeOK, storage_file_free
  <2> QED
    BY <2>1, CallStep
<1>2. CASE type[c] = "Closed"
  <2>1. /\ file_id' = [file_id EXCEPT ![c] = 0] /\ pc[c] = "idle"
        /\ UNCHANGED <<message_queue, pc, files, type, path, calls, flag, cardVars, exists>>
    BY <1>2 DEF IInv, ClientInv, TypeOK, storage_file_free
  <2>2. TypeOK'
    BY <2>1 DEF IInv, TypeOK, cardVars
  <2>3. QueueInv' /\ ClientInv'
    BY <2>1 DEF IInv, QueueInv, ClientInv, Inside, TypeOK
  <2>4. FilesInv'
    BY <1>2, <2>1 DEF IInv, FilesInv, Holds, TypeOK, Entries
  <2>5. OneHolder' /\ NoLostWakeup' /\ OpenFileExists'
    BY <2>1 DEF IInv, OneHolder, NoLostWakeup, OpenFileExists
  <2> QED
    BY <2>2, <2>3, <2>4, <2>5 DEF IInv
<1> QED
  BY <1>1, <1>2 DEF IInv, TypeOK

LEMMA CommonStep ==
    ASSUME IInv, StorageAssumption, NEW c \in Clients, NEW call \in Calls[c],
           CommonCall(c, call[1], call[2])
    PROVE  IInv'
<1>1. call[1] \in {"remove", "unmount", "format"} /\ call[2] \in Prefixes \X Names
  BY DEF StorageAssumption
<1>2. pc[c] = "idle" /\ type[c] = "Closed" /\ Send(c, call[1], "calling")
  BY DEF IInv, ClientInv, CommonCall
<1>3. QueueInv' /\ message_queue' \in Seq([client : Clients, command : Commands])
  <2>1. ItemOK(call[1], "calling", type'[c]) /\ call[1] \in Commands
    BY <1>1, <1>2 DEF ItemOK, Commands, CommonCall
  <2>2. \A d \in Clients \ {c} : type'[d] = type[d]
    BY DEF CommonCall
  <2> QED
    BY <1>2, <2>1, <2>2, SendKeepsQueue DEF IInv
<1>4. TypeOK'
  <2>1. calls' \in 0 .. MaxCalls
    BY DEF IInv, TypeOK, CommonCall, StorageAssumption
  <2> QED
    BY <1>1, <1>3, <2>1 DEF IInv, TypeOK, Send, CommonCall, cardVars
<1>5. ClientInv'
  BY <1>2 DEF IInv, ClientInv, Inside, Send, CommonCall, TypeOK
<1>6. FilesInv' /\ OneHolder'
  BY <1>2, SameFiles DEF IInv, TypeOK, Holds, Send, CommonCall
<1>7. NoLostWakeup' /\ OpenFileExists'
  BY <1>2 DEF IInv, TypeOK, NoLostWakeup, OpenFileExists, Send, CommonCall
<1> QED
  BY <1>3, <1>4, <1>5, <1>6, <1>7 DEF IInv

(***************************************************************************)
(* Answers of the storage thread                                           *)
(***************************************************************************)
LEMMA RequestIs ==
    ASSUME IInv, NEW c \in Clients, NEW command, Request(c, command)
    PROVE  ItemOK(command, pc[c], type[c]) /\ message_queue # <<>>
<1>1. 1 \in DOMAIN message_queue /\ message_queue[1].client = c /\ message_queue[1].command = command
  BY HeadIs DEF IInv
<1> QED
  BY <1>1 DEF IInv, QueueInv, Request

LEMMA AnswerStep ==
    ASSUME IInv, NEW c \in Clients, NEW command, Request(c, command), NEW at, Answer(c, at),
           \A d \in Clients \ {c} : type'[d] = type[d]
    PROVE  /\ QueueInv' /\ message_queue' \in Seq([client : Clients, command : Commands])
           /\ pc' = [pc EXCEPT ![c] = at]
<1>1. message_queue' = Tail(message_queue) /\ pc' = [pc EXCEPT ![c] = at] /\ message_queue # <<>>
  BY DEF Answer, Request
<1>2. \A d \in Clients \ {c} : pc'[d] = pc[d] /\ type'[d] = type[d]
  BY <1>1 DEF IInv, TypeOK
<1>3. QueueInv'
  BY <1>1, <1>2, AnswerKeepsQueue DEF IInv
<1>4. message_queue' \in Seq([client : Clients, command : Commands])
  BY <1>1, TailIs DEF IInv
<1> QED
  BY <1>1, <1>3, <1>4

LEMMA OpenRefusedStep ==
    ASSUME IInv, NEW c \in Clients, OpenRefused(c) PROVE IInv'
<1>1. /\ Request(c, "open") /\ Answer(c, "refused") /\ AlreadyOpen(path[c])
      /\ UNCHANGED <<files, file_id, type, path, calls, flag, cardVars, exists>>
  BY DEF OpenRefused
<1>2. pc[c] = "opening" /\ type[c] = "Open"
  BY <1>1, RequestIs DEF ItemOK, IInv, ClientInv
<1>3. QueueInv' /\ message_queue' \in Seq([client : Clients, command : Commands])
      /\ pc' = [pc EXCEPT ![c] = "refused"]
  BY <1>1, AnswerStep
<1>4. TypeOK'
  BY <1>1, <1>3 DEF IInv, TypeOK, cardVars
<1>5. ClientInv'
  BY <1>1, <1>2, <1>3 DEF IInv, ClientInv, Inside, TypeOK
<1>6. FilesInv' /\ OneHolder'
  BY <1>1, <1>2, <1>3, SameFiles DEF IInv, TypeOK, Holds
<1>7. OpenFileExists'
  BY <1>1 DEF IInv, OpenFileExists
<1>8. NoLostWakeup'
  <2>1. \E n \in DOMAIN files : files[n].path[2] = path[c][2] /\ path[c][1] \in {"any", files[n].type}
    BY <1>1 DEF AlreadyOpen, RealPath, TypeByPath
  <2>2. \A d \in Clients \ {c} : pc'[d] = pc[d]
    BY <1>3 DEF IInv, TypeOK
  <2> QED
    BY <1>1, <2>1, <2>2 DEF IInv, NoLostWakeup
<1> QED
  BY <1>3, <1>4, <1>5, <1>6, <1>7, <1>8 DEF IInv

LEMMA OpenInvalidStep ==
    ASSUME IInv, NEW c \in Clients, OpenInvalid(c) PROVE IInv'
<1>1. /\ Request(c, "open") /\ Answer(c, "ready") /\ TypeByPath(path[c]) = "bad"
      /\ flag' = [flag EXCEPT ![c] = FALSE]
      /\ UNCHANGED <<files, file_id, type, path, calls, cardVars, exists>>
  BY DEF OpenInvalid
<1>2. pc[c] = "opening" /\ type[c] = "Open" /\ path[c][1] = "bad"
  BY <1>1, RequestIs DEF ItemOK, IInv, ClientInv, TypeByPath
<1>3. QueueInv' /\ message_queue' \in Seq([client : Clients, command : Commands])
      /\ pc' = [pc EXCEPT ![c] = "ready"]
  BY <1>1, AnswerStep
<1>4. TypeOK'
  BY <1>1, <1>3 DEF IInv, TypeOK, cardVars
<1>5. ClientInv'
  BY <1>1, <1>2, <1>3 DEF IInv, ClientInv, Inside, TypeOK
<1>6. FilesInv' /\ OneHolder'
  BY <1>1, <1>2, <1>3, SameFiles DEF IInv, TypeOK, Holds
<1>7. NoLostWakeup' /\ OpenFileExists'
  BY <1>1, <1>2, <1>3 DEF IInv, TypeOK, NoLostWakeup, OpenFileExists
<1> QED
  BY <1>3, <1>4, <1>5, <1>6, <1>7 DEF IInv

LEMMA OpenProcessedStep ==
    ASSUME IInv, StorageAssumption, NEW c \in Clients, OpenProcessed(c) PROVE IInv'
<1> DEFINE t == TypeByPath(path[c])
           name == path[c][2]
<1>1. /\ Request(c, "open") /\ Answer(c, "ready") /\ ~AlreadyOpen(path[c]) /\ t # "bad"
      /\ flag' = [flag EXCEPT ![c] = FALSE]
      /\ UNCHANGED <<type, path, calls, cardVars>>
  BY DEF OpenProcessed
<1>2. PICK n \in Nodes \ DOMAIN files, ok \in BOOLEAN :
          /\ file_id' = [file_id EXCEPT ![c] = n]
          /\ files' = [m \in DOMAIN files \cup {n} |->
                         IF m = n THEN [file |-> c, type |-> t, path |-> RealPath(path[c]), valid |-> ok]
                                  ELSE files[m]]
          /\ exists' = IF ok THEN exists \cup {<<t, name>>} ELSE exists
  BY DEF OpenProcessed
<1>3. pc[c] = "opening" /\ type[c] = "Open"
  BY <1>1, RequestIs DEF ItemOK, IInv, ClientInv
<1>4. QueueInv' /\ message_queue' \in Seq([client : Clients, command : Commands])
      /\ pc' = [pc EXCEPT ![c] = "ready"]
  BY <1>1, AnswerStep
<1>5. /\ path[c] \in Prefixes \X Names /\ path[c][1] # "bad" /\ t \in {"ext", "int"}
      /\ name \in Names /\ RealPath(path[c]) = <<t, name>>
  BY <1>1 DEF IInv, TypeOK, TypeByPath, Prefixes, RealPath
<1>6. /\ DOMAIN files' = DOMAIN files \cup {n} /\ n \in Nodes /\ n \notin DOMAIN files
      /\ \A m \in DOMAIN files : files'[m] = files[m]
      /\ files'[n] = [file |-> c, type |-> t, path |-> <<t, name>>, valid |-> ok]
  BY <1>2, <1>5
<1>7. \A m \in DOMAIN files : <<files[m].type, files[m].path[2]>> # <<t, name>>
  <2> SUFFICES ASSUME NEW m \in DOMAIN files, files[m].type = t, files[m].path[2] = name
               PROVE  FALSE
    OBVIOUS
  <2>1. files[m].path[1] = t /\ files[m].path \in Prefixes \X Names
    BY DEF IInv, FilesInv, TypeOK, Entries
  <2>2. files[m].path = <<t, name>>
    BY <2>1
  <2> QED
    BY <1>1, <1>5, <2>2 DEF AlreadyOpen
<1>8. /\ file_id'[c] = n /\ ~Holds(c) /\ Holds(c)'
      /\ \A d \in Clients \ {c} : file_id'[d] = file_id[d] /\ (Holds(d)' <=> Holds(d))
  BY <1>1, <1>2, <1>3, <1>4, <1>5 DEF IInv, TypeOK, Holds
<1> HIDE DEF t, name
<1>9. \A m \in DOMAIN files : files[m].file \in Clients \ {c}
  BY <1>8 DEF IInv, FilesInv, TypeOK, Entries
<1>10. TypeOK'
  <2>1. files'[n] \in Entries
    BY <1>5, <1>6 DEF Entries, Prefixes
  <2>2. \A m \in DOMAIN files' : files'[m] \in Entries
    BY <1>6, <2>1 DEF IInv, TypeOK
  <2>3. exists' \subseteq {"ext", "int"} \X Names
    BY <1>2, <1>5 DEF IInv, TypeOK
  <2> QED
    BY <1>1, <1>2, <1>4, <1>6, <2>2, <2>3 DEF IInv, TypeOK, cardVars
<1>11. ClientInv'
  BY <1>1, <1>2, <1>3, <1>4, <1>5, <1>8 DEF IInv, ClientInv, Inside, TypeOK
<1>12. FilesInv'
  BY <1>6, <1>8, <1>9 DEF IInv, FilesInv
<1>13. OneHolder'
  BY <1>6, <1>7 DEF IInv, OneHolder
<1>14. NoLostWakeup'
  <2>1. \A d \in Clients \ {c} : pc'[d] = pc[d] /\ flag'[d] = flag[d]
    BY <1>1, <1>4 DEF IInv, TypeOK
  <2>2. pc'[c] # "refused"
    BY <1>4 DEF IInv, TypeOK
  <2>3. path' = path
    BY <1>1
  <2> QED
    BY <1>6, <2>1, <2>2, <2>3 DEF IInv, NoLostWakeup
<1>15. OpenFileExists'
  <2>1. exists \subseteq exists' /\ (ok => <<t, name>> \in exists')
    BY <1>2
  <2> QED
    BY <1>6, <2>1 DEF IInv, OpenFileExists
<1> QED
  BY <1>4, <1>10, <1>11, <1>12, <1>13, <1>14, <1>15 DEF IInv

(* What a close, or another call, finds is the client's own node.          *)
LEMMA FoundIsOwn ==
    ASSUME IInv, StorageAssumption, NEW c \in Clients, type[c] = "Open",
           pc[c] \in {"calling", "freeing"}
    PROVE  Found(c) = IF Holds(c) THEN {file_id[c]} ELSE {}
<1>1. \A n \in DOMAIN files : file_id[files[n].file] = n /\ n \in Nodes
  BY DEF IInv, FilesInv, TypeOK
<1>2. Found(c) = {n \in DOMAIN files : n = file_id[c]}
  BY <1>1 DEF Found
<1>3. CASE Holds(c)
  BY <1>2, <1>3 DEF IInv, FilesInv
<1>4. CASE ~Holds(c)
  <2>1. file_id[c] = 0
    BY <1>4 DEF IInv, ClientInv, Inside, Holds
  <2> QED
    BY <1>1, <1>2, <1>4, <2>1 DEF StorageAssumption
<1> QED
  BY <1>3, <1>4

LEMMA CloseProcessedStep ==
    ASSUME IInv, StorageAssumption, NEW c \in Clients, CloseProcessed(c) PROVE IInv'
<1>1. /\ Request(c, "close") /\ Answer(c, "idle") /\ path' = [path EXCEPT ![c] = NoPath]
      /\ type' = [type EXCEPT ![c] = "Closed"]
      /\ file_id' = [file_id EXCEPT ![c] = IF pc[c] = "freeing" THEN 0 ELSE @]
      /\ UNCHANGED <<calls, cardVars, exists>>
  BY DEF CloseProcessed, Returns, AfterClose, IInv, TypeOK
<1>2. pc[c] \in {"calling", "freeing"} /\ type[c] = "Open"
  BY <1>1, RequestIs DEF ItemOK
<1>3. QueueInv' /\ message_queue' \in Seq([client : Clients, command : Commands])
      /\ pc' = [pc EXCEPT ![c] = "idle"]
  <2>1. \A d \in Clients \ {c} : type'[d] = type[d]
    BY <1>1 DEF IInv, TypeOK
  <2> QED
    BY <1>1, <2>1, AnswerStep
<1>4. Found(c) = IF Holds(c) THEN {file_id[c]} ELSE {}
  BY <1>2, FoundIsOwn
<1>5. /\ DOMAIN files' = {n \in DOMAIN files : files[n].file # c}
      /\ \A n \in DOMAIN files' : files'[n] = files[n]
      /\ \/ UNCHANGED <<files, flag>>
         \/ flag' = [d \in Clients |-> flag[d] \/ Subscribed(d)]
  <2>1. CASE Holds(c)
    <3>1. /\ files' = [m \in DOMAIN files \ {file_id[c]} |-> files[m]]
          /\ flag' = [d \in Clients |-> flag[d] \/ Subscribed(d)]
      BY <1>4, <2>1 DEF CloseProcessed, Removed, Published
    <3>2. DOMAIN files \ {file_id[c]} = {n \in DOMAIN files : files[n].file # c}
      BY <2>1 DEF IInv, FilesInv
    <3> QED
      BY <3>1, <3>2
  <2>2. CASE ~Holds(c)
    <3>1. UNCHANGED <<files, flag>>
      BY <1>4, <2>2 DEF CloseProcessed
    <3>2. DOMAIN files = {n \in DOMAIN files : files[n].file # c}
      BY <2>2 DEF IInv, FilesInv
    <3> QED
      BY <3>1, <3>2
  <2> QED
    BY <2>1, <2>2
<1>6. /\ ~Holds(c)'
      /\ \A d \in Clients \ {c} : file_id'[d] = file_id[d] /\ (Holds(d)' <=> Holds(d))
  BY <1>1, <1>3 DEF IInv, TypeOK, Holds
<1>7. TypeOK'
  <2>1. flag' \in [Clients -> BOOLEAN]
    BY <1>5 DEF IInv, TypeOK, Subscribed
  <2>2. NoPath \in Prefixes \X Names
    BY DEF NoPath, Prefixes, StorageAssumption
  <2>3. DOMAIN files' \subseteq Nodes /\ \A n \in DOMAIN files' : files'[n] \in Entries
    BY <1>5 DEF IInv, TypeOK
  <2>4. file_id' \in [Clients -> Nodes \cup {0}]
    BY <1>1 DEF IInv, TypeOK
  <2>5. path' \in [Clients -> Prefixes \X Names] /\ type' \in [Clients -> {"Closed", "Open"}]
    BY <1>1, <2>2 DEF IInv, TypeOK
  <2> QED
    BY <1>1, <1>3, <2>1, <2>3, <2>4, <2>5 DEF IInv, TypeOK, cardVars
<1>8. ClientInv'
  BY <1>1, <1>3, <1>6 DEF IInv, ClientInv, Inside, TypeOK
<1>9. FilesInv'
  <2>1. \A n \in DOMAIN files' : files[n].file \in Clients \ {c}
    BY <1>5 DEF IInv, TypeOK, Entries
  <2> QED
    BY <1>5, <1>6, <2>1 DEF IInv, FilesInv
<1>10. OneHolder' /\ OpenFileExists'
  BY <1>1, <1>5 DEF IInv, OneHolder, OpenFileExists
<1>11. NoLostWakeup'
  <2>1. /\ pc'[c] # "refused"
        /\ \A d \in Clients \ {c} : pc'[d] = pc[d] /\ path'[d] = path[d]
    BY <1>1, <1>3 DEF IInv, TypeOK
  <2>2. CASE UNCHANGED <<files, flag>>
    BY <2>1, <2>2 DEF IInv, NoLostWakeup
  <2>3. CASE flag' = [d \in Clients |-> flag[d] \/ Subscribed(d)]
    BY <2>1, <2>3 DEF NoLostWakeup, Subscribed
  <2> QED
    BY <1>5, <2>2, <2>3
<1> QED
  BY <1>3, <1>7, <1>8, <1>9, <1>10, <1>11 DEF IInv

LEMMA IoProcessedStep ==
    ASSUME IInv, NEW c \in Clients, IoProcessed(c) PROVE IInv'
<1>1. /\ Request(c, "io") /\ Answer(c, "ready")
      /\ UNCHANGED <<files, file_id, type, path, calls, flag, cardVars, exists>>
  BY DEF IoProcessed
<1>2. pc[c] = "calling" /\ type[c] = "Open"
  BY <1>1, RequestIs DEF ItemOK
<1>3. QueueInv' /\ message_queue' \in Seq([client : Clients, command : Commands])
      /\ pc' = [pc EXCEPT ![c] = "ready"]
  BY <1>1, AnswerStep
<1>4. TypeOK'
  BY <1>1, <1>3 DEF IInv, TypeOK, cardVars
<1>5. ClientInv'
  BY <1>1, <1>2, <1>3 DEF IInv, ClientInv, Inside, TypeOK
<1>6. FilesInv' /\ OneHolder'
  BY <1>1, <1>2, <1>3, SameFiles DEF IInv, TypeOK, Holds
<1>7. NoLostWakeup' /\ OpenFileExists'
  BY <1>1, <1>2, <1>3 DEF IInv, TypeOK, NoLostWakeup, OpenFileExists
<1> QED
  BY <1>3, <1>4, <1>5, <1>6, <1>7 DEF IInv

(* Nodes that keep all but their validity.                                 *)
SameNodes ==
    /\ DOMAIN files' = DOMAIN files
    /\ \A n \in DOMAIN files :
          /\ files'[n].file = files[n].file /\ files'[n].type = files[n].type
          /\ files'[n].path = files[n].path
          /\ files'[n].valid => files[n].valid
          /\ files'[n] \in Entries

LEMMA InvalidatedSame ==
    ASSUME IInv, files' = Invalidated
    PROVE  SameNodes /\ \A n \in DOMAIN files : files'[n].valid => files[n].type = "int"
<1>1. \A n \in DOMAIN files : files[n] \in Entries
  BY DEF IInv, TypeOK
<1>2. DOMAIN files' = DOMAIN files
  BY DEF Invalidated
<1>3. ASSUME NEW n \in DOMAIN files, files[n].type = "ext"
      PROVE  /\ files'[n] = [files[n] EXCEPT !.valid = FALSE]
             /\ files'[n] \in Entries /\ files'[n].valid = FALSE
             /\ files'[n].file = files[n].file /\ files'[n].type = files[n].type
             /\ files'[n].path = files[n].path
  BY <1>1, <1>3 DEF Invalidated, Entries
<1>4. ASSUME NEW n \in DOMAIN files, files[n].type # "ext"
      PROVE  files'[n] = files[n] /\ files[n].type = "int"
  BY <1>1, <1>4 DEF Invalidated, Entries
<1>5. ASSUME NEW n \in DOMAIN files
      PROVE  /\ files'[n].file = files[n].file /\ files'[n].type = files[n].type
             /\ files'[n].path = files[n].path
             /\ files'[n].valid => files[n].valid /\ files[n].type = "int"
             /\ files'[n] \in Entries
  BY <1>1, <1>3, <1>4
<1> QED
  BY <1>2, <1>5 DEF SameNodes

LEMMA SameNodesKeep ==
    ASSUME IInv, SameNodes, UNCHANGED file_id, \A d \in Clients : Holds(d)' <=> Holds(d)
    PROVE  FilesInv' /\ OneHolder'
<1>1. \A n \in DOMAIN files : files[n].file \in Clients
  BY DEF IInv, TypeOK, Entries
<1>2. FilesInv'
  BY <1>1 DEF SameNodes, IInv, FilesInv
<1>3. OneHolder'
  BY DEF SameNodes, IInv, OneHolder
<1> QED
  BY <1>2, <1>3

(* remove, unmount and format: a client without a file gets its answer.    *)
LEMMA ReturnsStep ==
    ASSUME IInv, StorageAssumption, NEW c \in Clients,
           NEW command \in {"remove", "unmount", "format"}, Request(c, command), Returns(c),
           SameNodes, UNCHANGED <<file_id, type, calls, flag, sd_was_present, detect, flips>>,
           status' \in {"OK", "Error", "NotReady"}, exists' \subseteq {"ext", "int"} \X Names,
           OpenFileExists'
    PROVE  IInv'
<1>1. /\ Answer(c, "idle") /\ path' = [path EXCEPT ![c] = NoPath]
      /\ UNCHANGED <<file_id, type, calls, flag, sd_was_present, detect, flips>>
  BY DEF Returns
<1>2. type[c] = "Closed"
  BY RequestIs DEF ItemOK
<1>3. QueueInv' /\ message_queue' \in Seq([client : Clients, command : Commands])
      /\ pc' = [pc EXCEPT ![c] = "idle"]
  BY <1>1, AnswerStep
<1>4. TypeOK'
  <2>1. NoPath \in Prefixes \X Names
    BY DEF NoPath, Prefixes, StorageAssumption
  <2> QED
    BY <1>1, <1>3, <2>1 DEF SameNodes, IInv, TypeOK
<1>5. ClientInv'
  BY <1>1, <1>2, <1>3 DEF IInv, ClientInv, Inside, TypeOK
<1>6. FilesInv' /\ OneHolder'
  <2>1. \A d \in Clients : Holds(d)' <=> Holds(d)
    BY <1>1, <1>2, <1>3 DEF IInv, TypeOK, Holds
  <2> QED
    BY <1>1, <2>1, SameNodesKeep
<1>7. NoLostWakeup'
  <2>1. /\ pc'[c] # "refused"
        /\ \A d \in Clients \ {c} : pc'[d] = pc[d] /\ path'[d] = path[d]
    BY <1>1, <1>3 DEF IInv, TypeOK
  <2> QED
    BY <1>1, <2>1 DEF IInv, NoLostWakeup, SameNodes
<1> QED
  BY <1>3, <1>4, <1>5, <1>6, <1>7 DEF IInv

LEMMA UnchangedSame ==
    ASSUME IInv, UNCHANGED files PROVE SameNodes
  BY DEF SameNodes, IInv, TypeOK

LEMMA RemoveProcessedStep ==
    ASSUME IInv, StorageAssumption, NEW c \in Clients, RemoveProcessed(c) PROVE IInv'
<1>1. /\ Request(c, "remove") /\ Returns(c) /\ SameNodes
      /\ UNCHANGED <<files, file_id, type, calls, flag, sd_was_present, detect, flips, status>>
  BY UnchangedSame DEF RemoveProcessed, cardVars
<1>2. exists' = exists \/ (~AlreadyOpen(path[c])
                           /\ exists' = exists \ {<<TypeByPath(path[c]), path[c][2]>>})
  BY DEF RemoveProcessed
<1>3. exists' \subseteq {"ext", "int"} \X Names
  BY <1>2 DEF IInv, TypeOK
<1>4. OpenFileExists'
  <2>1. CASE exists' = exists
    BY <1>1, <2>1 DEF IInv, OpenFileExists
  <2>2. CASE ~AlreadyOpen(path[c]) /\ exists' = exists \ {<<TypeByPath(path[c]), path[c][2]>>}
    <3> SUFFICES ASSUME NEW n \in DOMAIN files, files[n].valid
                 PROVE  <<files[n].type, files[n].path[2]>> # <<TypeByPath(path[c]), path[c][2]>>
      BY <1>1, <2>2 DEF IInv, OpenFileExists
    <3>1. files[n].path[1] = files[n].type /\ files[n].path \in Prefixes \X Names
      BY DEF IInv, FilesInv, TypeOK, Entries
    <3>2. files[n].path = <<files[n].type, files[n].path[2]>>
      BY <3>1
    <3> QED
      BY <2>2, <3>2 DEF AlreadyOpen, RealPath
  <2> QED
    BY <1>2, <2>1, <2>2
<1>5. status' \in {"OK", "Error", "NotReady"}
  BY <1>1 DEF IInv, TypeOK
<1> QED
  BY <1>1, <1>3, <1>4, <1>5, ReturnsStep

LEMMA UnmountProcessedStep ==
    ASSUME IInv, StorageAssumption, NEW c \in Clients, UnmountProcessed(c) PROVE IInv'
<1>1. /\ Request(c, "unmount") /\ Returns(c) /\ status' = "NotReady"
      /\ UNCHANGED <<file_id, type, calls, flag, sd_was_present, detect, flips, exists>>
  BY DEF UnmountProcessed
<1>2. SameNodes
  BY InvalidatedSame, UnchangedSame DEF UnmountProcessed
<1>3. OpenFileExists' /\ exists' \subseteq {"ext", "int"} \X Names
  BY <1>1, <1>2 DEF SameNodes, IInv, OpenFileExists, TypeOK
<1> QED
  BY <1>1, <1>2, <1>3, ReturnsStep

LEMMA FormatProcessedStep ==
    ASSUME IInv, StorageAssumption, NEW c \in Clients, FormatProcessed(c) PROVE IInv'
<1>1. /\ Request(c, "format") /\ Returns(c)
      /\ UNCHANGED <<file_id, type, calls, flag, sd_was_present, detect, flips>>
  BY DEF FormatProcessed
<1>2. \/ UNCHANGED <<status, files, exists>>
      \/ status' \in {"OK", "Error"} /\ files' = Invalidated /\ exists' = OnInt
  BY DEF FormatProcessed
<1>3. SameNodes
  BY <1>2, InvalidatedSame, UnchangedSame
<1>4. status' \in {"OK", "Error", "NotReady"} /\ exists' \subseteq {"ext", "int"} \X Names
  BY <1>2 DEF IInv, TypeOK, OnInt
<1>5. OpenFileExists'
  <2>1. CASE UNCHANGED <<status, files, exists>>
    BY <2>1 DEF IInv, OpenFileExists
  <2>2. CASE files' = Invalidated /\ exists' = OnInt
    BY <1>3, <2>2, InvalidatedSame DEF SameNodes, IInv, OpenFileExists, OnInt
  <2> QED
    BY <1>2, <2>1, <2>2
<1> QED
  BY <1>1, <1>3, <1>4, <1>5, ReturnsStep

(***************************************************************************)
(* The tick and the card                                                   *)
(***************************************************************************)
LEMMA CardStep ==
    ASSUME IInv, UNCHANGED <<message_queue, clientVars, flag>>, SameNodes,
           status' \in {"OK", "Error", "NotReady"}, sd_was_present' \in BOOLEAN,
           detect' \in BOOLEAN, flips' \in 0 .. MaxFlips,
           exists' \subseteq {"ext", "int"} \X Names, OpenFileExists'
    PROVE  IInv'
<1>1. UNCHANGED <<message_queue, file_id, type, pc, path, calls, flag>>
  BY DEF clientVars
<1>2. TypeOK'
  BY <1>1 DEF SameNodes, IInv, TypeOK
<1>3. QueueInv' /\ ClientInv'
  BY <1>1 DEF IInv, QueueInv, ClientInv, Inside
<1>4. FilesInv' /\ OneHolder'
  BY <1>1, SameNodesKeep DEF Holds
<1>5. NoLostWakeup'
  BY <1>1 DEF SameNodes, IInv, NoLostWakeup
<1> QED
  BY <1>2, <1>3, <1>4, <1>5 DEF IInv

LEMMA TickStep ==
    ASSUME IInv, StorageAssumption, storage_tick PROVE IInv'
<1>1. UNCHANGED <<message_queue, clientVars, flag>>
  BY DEF storage_tick
<1>2. CASE Mount
  <2>1. /\ files' = Invalidated
        /\ \E s \in SUBSET ({"ext"} \X Names) : exists' = OnInt \cup s
    BY <1>2 DEF Mount
  <2>2. status' \in {"OK", "Error", "NotReady"} /\ sd_was_present' \in BOOLEAN /\ detect' \in BOOLEAN
    BY <1>2 DEF Mount, IInv, TypeOK
  <2>3. flips' \in 0 .. MaxFlips
    <3>1. flips \in 0 .. MaxFlips /\ MaxFlips \in Nat
      BY DEF IInv, TypeOK, StorageAssumption
    <3>2. flips' = flips \/ (flips < MaxFlips /\ flips' = flips + 1)
      BY <1>2 DEF Mount
    <3> QED
      BY <3>1, <3>2
  <2>4. SameNodes /\ \A n \in DOMAIN files : files'[n].valid => files[n].type = "int"
    BY <2>1, InvalidatedSame
  <2>5. OpenFileExists' /\ exists' \subseteq {"ext", "int"} \X Names
    BY <2>1, <2>4 DEF SameNodes, IInv, OpenFileExists, OnInt, TypeOK
  <2> QED
    BY <1>1, <2>2, <2>3, <2>4, <2>5, CardStep
<1>3. CASE Unmount
  <2>1. /\ files' = Invalidated /\ sd_was_present' = TRUE /\ status' = "NotReady"
        /\ UNCHANGED <<detect, flips, exists>>
    BY <1>3 DEF Unmount
  <2>2. SameNodes
    BY <2>1, InvalidatedSame
  <2>3. OpenFileExists'
    BY <2>1, <2>2 DEF SameNodes, IInv, OpenFileExists
  <2>4. detect' \in BOOLEAN /\ flips' \in 0 .. MaxFlips /\ exists' \subseteq {"ext", "int"} \X Names
    BY <2>1 DEF IInv, TypeOK
  <2> QED
    BY <1>1, <2>1, <2>2, <2>3, <2>4, CardStep
<1>4. CASE UNCHANGED <<sd_was_present, status, detect, flips, files, exists>>
  <2>1. SameNodes /\ OpenFileExists'
    BY <1>4, UnchangedSame DEF IInv, OpenFileExists
  <2> QED
    BY <1>1, <1>4, <2>1, CardStep DEF IInv, TypeOK
<1> QED
  BY <1>2, <1>3, <1>4 DEF storage_tick

LEMMA FlipStep ==
    ASSUME IInv, StorageAssumption, Flip PROVE IInv'
<1>1. /\ UNCHANGED <<message_queue, clientVars, flag>> /\ SameNodes
      /\ UNCHANGED <<files, exists, status, sd_was_present>>
  BY UnchangedSame DEF Flip
<1>2. detect' \in BOOLEAN /\ flips' \in 0 .. MaxFlips
  BY DEF Flip, IInv, TypeOK, StorageAssumption
<1>3. OpenFileExists'
  BY <1>1 DEF IInv, OpenFileExists
<1> QED
  BY <1>1, <1>2, <1>3, CardStep DEF IInv, TypeOK

(***************************************************************************)
(* The theorems                                                            *)
(***************************************************************************)
LEMMA InitHolds == ASSUME Init, StorageAssumption PROVE IInv
<1>1. TypeOK
  <2>1. NoPath \in Prefixes \X Names
    BY DEF NoPath, Prefixes, StorageAssumption
  <2>2. message_queue \in Seq([client : Clients, command : Commands]) /\ DOMAIN files = {}
    BY DEF Init
  <2>3. calls \in 0 .. MaxCalls /\ flips \in 0 .. MaxFlips
    BY DEF Init, StorageAssumption
  <2>4. status \in {"OK", "Error", "NotReady"}
    BY DEF Init
  <2> QED
    BY <2>1, <2>2, <2>3, <2>4 DEF Init, TypeOK
<1>2. QueueInv /\ ClientInv
  BY DEF Init, QueueInv, ClientInv
<1>3. FilesInv /\ OneHolder /\ NoLostWakeup /\ OpenFileExists
  BY DEF Init, FilesInv, OneHolder, NoLostWakeup, OpenFileExists, Holds
<1> QED
  BY <1>1, <1>2, <1>3 DEF IInv

LEMMA NextKeeps == ASSUME IInv, StorageAssumption, [Next]_vars PROVE IInv'
<1>1. ASSUME NEW c \in Clients, ClientStep(c) PROVE IInv'
  <2>1. CASE Io(c)
    <3>1. /\ pc[c] = "ready" /\ Send(c, "io", "calling") /\ calls' \in 0 .. MaxCalls
          /\ UNCHANGED <<files, file_id, type, path, flag, cardVars, exists>>
      BY <2>1 DEF Io, IInv, TypeOK, StorageAssumption
    <3> QED
      BY <3>1, CallStep
  <2>2. CASE storage_file_close(c)
    <3>1. /\ pc[c] = "ready" /\ Send(c, "close", "calling") /\ calls' \in 0 .. MaxCalls
          /\ UNCHANGED <<files, file_id, type, path, flag, cardVars, exists>>
      BY <2>2 DEF storage_file_close, IInv, TypeOK
    <3> QED
      BY <3>1, CallStep
  <2>3. CASE \E p \in Opens[c] : storage_file_open(c, p)
    BY <2>3, OpenStep
  <2>4. CASE \E call \in Calls[c] : CommonCall(c, call[1], call[2])
    BY <2>4, CommonStep
  <2> QED
    BY <1>1, <2>1, <2>2, <2>3, <2>4, OpenInternalStep, RetryStep, FreeStep DEF ClientStep
<1>2. ASSUME NEW c \in Clients, storage_process_message(c) PROVE IInv'
  BY <1>2, OpenRefusedStep, OpenInvalidStep, OpenProcessedStep, CloseProcessedStep,
     IoProcessedStep, RemoveProcessedStep, UnmountProcessedStep, FormatProcessedStep
     DEF storage_process_message
<1>3. CASE UNCHANGED vars
  <2>1. UNCHANGED <<message_queue, clientVars, flag, files, exists, status, sd_was_present, detect, flips>>
    BY <1>3 DEF vars, cardVars
  <2>2. SameNodes /\ OpenFileExists'
    BY <2>1, UnchangedSame DEF IInv, OpenFileExists
  <2> QED
    BY <2>1, <2>2, CardStep DEF IInv, TypeOK
<1> QED
  BY <1>1, <1>2, <1>3, TickStep, FlipStep DEF Next

(* The inductive invariant of the storage service.                         *)
THEOREM StorageInvariant == Spec => []IInv
<1>1. Init => IInv
  BY InitHolds, StorageAssumption
<1>2. IInv /\ [Next]_vars => IInv'
  BY NextKeeps, StorageAssumption
<1> QED
  BY <1>1, <1>2, PTL DEF Spec

(* Every variable of the service keeps to its values.                      *)
THEOREM StorageTypeOK == Spec => []TypeOK
<1>1. IInv => TypeOK
  BY DEF IInv
<1> QED
  BY <1>1, StorageInvariant, PTL

(* The lists have a node for exactly the files that are open.              *)
THEOREM StorageListExact == Spec => []ListExact
<1>1. IInv => ListExact
  BY DEF IInv, FilesInv, ListExact
<1> QED
  BY <1>1, StorageInvariant, PTL

(* A call with a File reaches no other client's file.                      *)
THEOREM StorageReachesOwnFile == Spec => []ReachesOwnFile
<1>1. ASSUME IInv PROVE ReachesOwnFile
  <2> SUFFICES ASSUME NEW i \in DOMAIN message_queue,
                      message_queue[i].command \in {"io", "close"},
                      NEW n \in Found(message_queue[i].client)
               PROVE  files[n].file = message_queue[i].client
    BY DEF ReachesOwnFile
  <2> DEFINE c == message_queue[i].client
  <2>1. c \in Clients
    BY <1>1, ItemsTyped DEF IInv
  <2>2. type[c] = "Open" /\ pc[c] \in {"calling", "freeing"}
    BY <1>1 DEF IInv, QueueInv, ItemOK
  <2>3. Found(c) = IF Holds(c) THEN {file_id[c]} ELSE {}
    BY <1>1, <2>1, <2>2, FoundIsOwn, StorageAssumption
  <2> QED
    BY <1>1, <2>1, <2>3 DEF IInv, FilesInv
<1> QED
  BY <1>1, StorageInvariant, PTL

(* A file of a file system is open at most once, whatever its prefix.      *)
THEOREM StorageOneHolder == Spec => []OneHolder
<1>1. IInv => OneHolder
  BY DEF IInv
<1> QED
  BY <1>1, StorageInvariant, PTL

(* An open that waits has a close to wait for, or its event is set.        *)
THEOREM StorageNoLostWakeup == Spec => []NoLostWakeup
<1>1. IInv => NoLostWakeup
  BY DEF IInv
<1> QED
  BY <1>1, StorageInvariant, PTL

(* A file that is open with success is in the file system.                 *)
THEOREM StorageOpenFileExists == Spec => []OpenFileExists
<1>1. IInv => OpenFileExists
  BY DEF IInv
<1> QED
  BY <1>1, StorageInvariant, PTL

(***************************************************************************)
(* The service implements FileTable                                        *)
(***************************************************************************)
Holders == {c \in Clients : Holds(c)}
Held == {Handle(c) : c \in Holders}

LEMMA SameHeld ==
    ASSUME \A c \in Clients : Holds(c)' <=> Holds(c), \A c \in Clients : Holds(c) => Handle(c)' = Handle(c)
    PROVE  UNCHANGED Held
<1>1. Holders' = Holders
  BY DEF Holders
<1> QED
  BY <1>1 DEF Holders, Held

LEMMA SameFilesHeld ==
    ASSUME UNCHANGED <<files, file_id>>, \A c \in Clients : Holds(c)' <=> Holds(c)
    PROVE  UNCHANGED Held
<1>1. \A c \in Clients : Handle(c)' = Handle(c)
  BY DEF Handle
<1> QED
  BY <1>1, SameHeld

(* A handle says what is in its client's node.                             *)
LEMMA HandleIs ==
    ASSUME IInv, NEW c \in Clients, Holds(c)
    PROVE  /\ file_id[c] \in DOMAIN files /\ files[file_id[c]] \in Entries
           /\ Handle(c).client = c
           /\ Handle(c).file = <<files[file_id[c]].type, files[file_id[c]].path[2]>>
           /\ Handle(c).valid = files[file_id[c]].valid
  BY DEF IInv, TypeOK, FilesInv, Handle

LEMMA ClientTable ==
    ASSUME IInv, NEW c \in Clients, ClientStep(c) PROVE UNCHANGED <<exists, Held>>
<1>1. UNCHANGED <<files, exists>>
  BY DEF ClientStep, storage_file_open, storage_file_open_internal, Retry, Io, storage_file_close,
         storage_file_free, CommonCall
<1>2. CASE storage_file_free(c) /\ type[c] # "Open"
  <2>1. /\ file_id' = [file_id EXCEPT ![c] = 0] /\ UNCHANGED <<files, type, path, pc>>
    BY <1>2 DEF storage_file_free
  <2>2. \A d \in Clients : Holds(d)' <=> Holds(d)
    BY <2>1 DEF Holds
  <2>3. \A d \in Clients : Holds(d) => Handle(d)' = Handle(d)
    BY <1>2, <2>1 DEF IInv, TypeOK, Holds, Handle
  <2> QED
    BY <1>1, <2>2, <2>3, SameHeld
<1>3. CASE ~(storage_file_free(c) /\ type[c] # "Open")
  <2>1. UNCHANGED file_id
    BY <1>3 DEF ClientStep, storage_file_open, storage_file_open_internal, Retry, Io, storage_file_close,
         storage_file_free, CommonCall
  <2>2. \A d \in Clients : Holds(d)' <=> Holds(d)
    <3>1. CASE storage_file_free(c)
      BY <3>1, <1>3 DEF storage_file_free, Send, IInv, TypeOK, ClientInv, Holds
    <3>2. CASE storage_file_open_internal(c)
      BY <3>2 DEF storage_file_open_internal, Send, IInv, TypeOK, Holds
    <3>3. CASE Retry(c)
      BY <3>3 DEF Retry, IInv, TypeOK, Holds
    <3>4. CASE Io(c) \/ storage_file_close(c)
      BY <3>4 DEF Io, storage_file_close, Send, IInv, TypeOK, Holds
    <3>5. CASE \E p \in Opens[c] : storage_file_open(c, p)
      BY <3>5 DEF storage_file_open, IInv, TypeOK, Holds
    <3>6. CASE \E call \in Calls[c] : CommonCall(c, call[1], call[2])
      BY <3>6 DEF CommonCall, Send, IInv, TypeOK, ClientInv, Holds
    <3> QED
      BY <3>1, <3>2, <3>3, <3>4, <3>5, <3>6 DEF ClientStep
  <2> QED
    BY <1>1, <2>1, <2>2, SameFilesHeld
<1> QED
  BY <1>1, <1>2, <1>3

(* Answers that leave the lists alone.                                     *)
LEMMA AnswerTable ==
    ASSUME IInv, NEW c \in Clients, OpenRefused(c) \/ OpenInvalid(c) \/ IoProcessed(c)
    PROVE  UNCHANGED <<exists, Held>>
<1>1. UNCHANGED <<files, file_id, exists, type, path>>
  BY DEF OpenRefused, OpenInvalid, IoProcessed
<1>2. \A d \in Clients : Holds(d)' <=> Holds(d)
  <2>1. CASE OpenRefused(c)
    <3>1. pc[c] = "opening" /\ pc' = [pc EXCEPT ![c] = "refused"]
      BY <2>1, RequestIs DEF OpenRefused, Answer, ItemOK
    <3> QED
      BY <1>1, <3>1 DEF IInv, TypeOK, Holds
  <2>2. CASE OpenInvalid(c)
    <3>1. pc[c] = "opening" /\ pc' = [pc EXCEPT ![c] = "ready"] /\ path[c][1] = "bad"
      BY <2>2, RequestIs DEF OpenInvalid, Answer, ItemOK, TypeByPath
    <3> QED
      BY <1>1, <3>1 DEF IInv, TypeOK, Holds
  <2>3. CASE IoProcessed(c)
    <3>1. pc[c] = "calling" /\ pc' = [pc EXCEPT ![c] = "ready"]
      BY <2>3, RequestIs DEF IoProcessed, Answer, ItemOK
    <3> QED
      BY <1>1, <3>1 DEF IInv, TypeOK, Holds
  <2> QED
    BY <2>1, <2>2, <2>3
<1> QED
  BY <1>1, <1>2, SameFilesHeld

LEMMA OpenTable ==
    ASSUME IInv, StorageAssumption, NEW c \in Clients, OpenProcessed(c)
    PROVE  \E f \in {"ext", "int"} \X Names, ok \in BOOLEAN : Table!TOpen(c, f, ok)
<1> DEFINE t == TypeByPath(path[c])
           name == path[c][2]
           f == <<t, name>>
<1>1. Request(c, "open") /\ Answer(c, "ready") /\ ~AlreadyOpen(path[c]) /\ t # "bad" /\ UNCHANGED <<type, path>>
  BY DEF OpenProcessed
<1>2. PICK n \in Nodes \ DOMAIN files, ok \in BOOLEAN :
          /\ file_id' = [file_id EXCEPT ![c] = n]
          /\ files' = [m \in DOMAIN files \cup {n} |->
                         IF m = n THEN [file |-> c, type |-> t, path |-> RealPath(path[c]), valid |-> ok]
                                  ELSE files[m]]
          /\ exists' = IF ok THEN exists \cup {<<t, name>>} ELSE exists
  BY DEF OpenProcessed
<1>3. pc[c] = "opening" /\ type[c] = "Open" /\ pc' = [pc EXCEPT ![c] = "ready"]
  BY <1>1, RequestIs DEF ItemOK, IInv, ClientInv, Answer
<1>4. /\ path[c][1] # "bad" /\ f \in {"ext", "int"} \X Names /\ RealPath(path[c]) = f
  BY <1>1 DEF IInv, TypeOK, TypeByPath, Prefixes, RealPath
<1>5. /\ file_id'[c] = n /\ ~Holds(c) /\ Holds(c)'
      /\ \A d \in Clients \ {c} : file_id'[d] = file_id[d] /\ (Holds(d)' <=> Holds(d))
  BY <1>1, <1>2, <1>3, <1>4 DEF IInv, TypeOK, Holds
<1>6. Handle(c)' = [client |-> c, file |-> f, valid |-> ok]
  BY <1>2, <1>4, <1>5 DEF Handle
<1>7. ASSUME NEW d \in Clients, Holds(d)
      PROVE  Handle(d)' = Handle(d) /\ Handle(d).client # c /\ Handle(d).file # f
  <2>1. d # c /\ file_id[d] \in DOMAIN files /\ files'[file_id[d]] = files[file_id[d]] /\ file_id'[d] = file_id[d]
    BY <1>2, <1>5, <1>7 DEF IInv, FilesInv
  <2>2. <<files[file_id[d]].type, files[file_id[d]].path[2]>> # f
    <3>1. files[file_id[d]] \in Entries /\ files[file_id[d]].path[1] = files[file_id[d]].type
      BY <2>1 DEF IInv, TypeOK, FilesInv
    <3>2. files[file_id[d]].path = <<files[file_id[d]].type, files[file_id[d]].path[2]>>
      BY <3>1 DEF Entries
    <3> HIDE DEF f
    <3>3. ~(files[file_id[d]].type = t /\ files[file_id[d]].path = f)
      BY <1>1, <1>4, <2>1 DEF AlreadyOpen
    <3> QED
      BY <3>2, <3>3 DEF f
  <2> QED
    BY <2>1, <2>2 DEF Handle
<1>8. Holders' = Holders \cup {c}
  BY <1>5 DEF Holders
<1>9. Held' = Held \cup {[client |-> c, file |-> f, valid |-> ok]}
  <2>1. \A d \in Holders : d \in Clients /\ Holds(d)
    BY DEF Holders
  <2>2. Held' = {Handle(d)' : d \in Holders \cup {c}}
    BY <1>8 DEF Held
  <2>3. \A d \in Holders : Handle(d)' = Handle(d)
    BY <2>1, <1>7
  <2> QED
    BY <1>6, <2>2, <2>3 DEF Held
<1>10. \A h \in Held : h.client # c /\ h.file # f
  BY <1>7 DEF Held, Holders
<1>11. Table!TOpen(c, f, ok)
  BY <1>2, <1>9, <1>10 DEF Held, Holders, Table!TOpen, Table!Busy, Table!HasFile
<1> QED
  BY <1>2, <1>4, <1>11

LEMMA CloseTable ==
    ASSUME IInv, StorageAssumption, NEW c \in Clients, CloseProcessed(c)
    PROVE  Table!TClose(c) \/ UNCHANGED <<exists, Held>>
<1>1. /\ Request(c, "close") /\ Answer(c, "idle") /\ path' = [path EXCEPT ![c] = NoPath]
      /\ type' = [type EXCEPT ![c] = "Closed"]
      /\ file_id' = [file_id EXCEPT ![c] = IF pc[c] = "freeing" THEN 0 ELSE @]
      /\ UNCHANGED exists
  BY DEF CloseProcessed, Returns, AfterClose, IInv, TypeOK
<1>2. pc[c] \in {"calling", "freeing"} /\ type[c] = "Open" /\ pc' = [pc EXCEPT ![c] = "idle"]
  BY <1>1, RequestIs DEF ItemOK, Answer
<1>3. Found(c) = IF Holds(c) THEN {file_id[c]} ELSE {}
  BY <1>2, FoundIsOwn
<1>4. /\ ~Holds(c)'
      /\ \A d \in Clients \ {c} : file_id'[d] = file_id[d] /\ (Holds(d)' <=> Holds(d))
  BY <1>1, <1>2 DEF IInv, TypeOK, Holds
<1>5. ASSUME NEW d \in Clients \ {c}, Holds(d)
      PROVE  Handle(d)' = Handle(d)
  <2>1. file_id[d] \in DOMAIN files /\ files[file_id[d]].file = d
    BY <1>5 DEF IInv, FilesInv
  <2>2. files'[file_id[d]] = files[file_id[d]]
    <3>1. CASE Holds(c)
      <4>1. files' = [m \in DOMAIN files \ {file_id[c]} |-> files[m]]
        BY <1>3, <3>1 DEF CloseProcessed, Removed
      <4>2. file_id[d] # file_id[c]
        BY <2>1, <3>1 DEF IInv, FilesInv
      <4> QED
        BY <2>1, <4>1, <4>2
    <3>2. CASE ~Holds(c)
      BY <1>3, <3>2 DEF CloseProcessed
    <3> QED
      BY <3>1, <3>2
  <2> QED
    BY <1>4, <2>2 DEF Handle
<1>6. CASE Holds(c)
  <2>1. Holders' = Holders \ {c} /\ c \in Holders
    BY <1>4, <1>6 DEF Holders
  <2>2. \A d \in Holders : d \in Clients /\ Holds(d) /\ Handle(d).client = d
    BY DEF Holders, Handle
  <2>3. \A d \in Holders \ {c} : Handle(d)' = Handle(d)
    BY <1>5, <2>2
  <2>4. Held' = {h \in Held : h.client # c}
    BY <2>1, <2>2, <2>3 DEF Held
  <2>5. \E h \in Held : h.client = c
    BY <2>1, <2>2 DEF Held
  <2> QED
    BY <1>1, <2>4, <2>5 DEF Held, Holders, Table!TClose, Table!HasFile
<1>7. CASE ~Holds(c)
  <2>1. \A d \in Clients : (Holds(d)' <=> Holds(d)) /\ (Holds(d) => Handle(d)' = Handle(d))
    BY <1>4, <1>5, <1>7
  <2> QED
    BY <1>1, <2>1, SameHeld
<1> QED
  BY <1>6, <1>7

LEMMA RemoveTable ==
    ASSUME IInv, NEW c \in Clients, RemoveProcessed(c)
    PROVE  \/ \E f \in {"ext", "int"} \X Names : Table!TRemove(f)
           \/ UNCHANGED <<exists, Held>>
<1> DEFINE f == <<TypeByPath(path[c]), path[c][2]>>
<1>1. Request(c, "remove") /\ Returns(c) /\ UNCHANGED <<files, file_id, type>>
  BY DEF RemoveProcessed
<1>2. type[c] = "Closed"
  BY <1>1, RequestIs DEF ItemOK
<1>3. UNCHANGED Held
  <2>1. \A d \in Clients : Holds(d)' <=> Holds(d)
    BY <1>1, <1>2 DEF Returns, Answer, IInv, TypeOK, Holds
  <2> QED
    BY <1>1, <2>1, SameFilesHeld
<1>4. CASE UNCHANGED exists
  BY <1>3, <1>4
<1>5. CASE /\ ~AlreadyOpen(path[c]) /\ Answers(TypeByPath(path[c])) /\ exists' = exists \ {f}
  <2>1. f \in {"ext", "int"} \X Names
    BY <1>5 DEF Answers, IInv, TypeOK
  <2>2. ASSUME NEW d \in Clients, Holds(d) PROVE Handle(d).file # f
    <3>1. /\ file_id[d] \in DOMAIN files /\ files[file_id[d]] \in Entries
          /\ Handle(d).file = <<files[file_id[d]].type, files[file_id[d]].path[2]>>
      BY <2>2, HandleIs
    <3>2. files[file_id[d]].path = <<files[file_id[d]].type, files[file_id[d]].path[2]>>
      BY <3>1 DEF IInv, FilesInv, Entries
    <3> QED
      BY <1>5, <3>1, <3>2 DEF AlreadyOpen, RealPath
  <2>3. \A h \in Held : h.file # f
    BY <2>2 DEF Held, Holders
  <2> QED
    BY <1>3, <1>5, <2>1, <2>3 DEF Held, Holders, Table!TRemove, Table!Busy
<1> QED
  BY <1>4, <1>5 DEF RemoveProcessed

(* The card takes its files with it, and they stay their clients'.         *)
LEMMA CardTable ==
    ASSUME IInv, files' = Invalidated, UNCHANGED file_id, \A d \in Clients : Holds(d)' <=> Holds(d),
           NEW s \in SUBSET ({"ext"} \X Names), exists' = {f \in exists : f[1] # "ext"} \cup s
    PROVE  Table!TCard
<1> DEFINE Lost(h) == [h EXCEPT !.valid = h.valid /\ h.file[1] # "ext"]
<1>1. ASSUME NEW d \in Clients, Holds(d) PROVE Handle(d)' = Lost(Handle(d))
  <2>1. file_id[d] \in DOMAIN files /\ files[file_id[d]] \in Entries
    BY <1>1, HandleIs
  <2> DEFINE e == files[file_id[d]]
  <2>2. files'[file_id[d]] = IF e.type = "ext" THEN [e EXCEPT !.valid = FALSE] ELSE e
    BY <2>1 DEF Invalidated
  <2>3. files'[file_id[d]].type = e.type /\ files'[file_id[d]].path = e.path
        /\ files'[file_id[d]].valid = (e.valid /\ e.type # "ext")
    BY <2>1, <2>2 DEF Entries
  <2>4. Handle(d)' = [client |-> d, file |-> <<e.type, e.path[2]>>, valid |-> e.valid /\ e.type # "ext"]
    BY <2>3 DEF Handle
  <2>5. Handle(d) = [client |-> d, file |-> <<e.type, e.path[2]>>, valid |-> e.valid]
    BY DEF Handle
  <2> QED
    BY <2>4, <2>5
<1>2. Holders' = Holders /\ \A d \in Holders : Handle(d)' = Lost(Handle(d))
  BY <1>1 DEF Holders
<1>3. Held' = {Lost(h) : h \in Held}
  BY <1>2 DEF Held
<1> QED
  BY <1>3 DEF Held, Holders, Table!TCard

LEMMA OnIntIs == ASSUME IInv PROVE OnInt = {f \in exists : f[1] # "ext"}
  BY DEF IInv, TypeOK, OnInt

(* Leaving the card's files as they are is a choice of TCard's.            *)
LEMMA SameExists ==
    ASSUME IInv, UNCHANGED exists
    PROVE  \E s \in SUBSET ({"ext"} \X Names) : exists' = {f \in exists : f[1] # "ext"} \cup s
<1> DEFINE s == {f \in exists : f[1] = "ext"}
<1>1. s \in SUBSET ({"ext"} \X Names) /\ exists = {f \in exists : f[1] # "ext"} \cup s
  BY DEF IInv, TypeOK
<1> QED
  BY <1>1

LEMMA MediaTable ==
    ASSUME IInv, NEW c \in Clients, UnmountProcessed(c) \/ FormatProcessed(c)
    PROVE  Table!TCard \/ UNCHANGED <<exists, Held>>
<1>1. UNCHANGED <<file_id, type>> /\ \A d \in Clients : Holds(d)' <=> Holds(d)
  <2>1. PICK command \in {"unmount", "format"} : Request(c, command) /\ Returns(c) /\ UNCHANGED <<file_id, type>>
    BY DEF UnmountProcessed, FormatProcessed
  <2>2. type[c] = "Closed"
    BY <2>1, RequestIs DEF ItemOK
  <2> QED
    BY <2>1, <2>2 DEF Returns, Answer, IInv, TypeOK, Holds
<1>2. \/ UNCHANGED <<files, exists>>
      \/ files' = Invalidated /\ (UNCHANGED exists \/ exists' = OnInt)
  BY DEF UnmountProcessed, FormatProcessed
<1>3. CASE UNCHANGED <<files, exists>>
  BY <1>1, <1>3, SameFilesHeld
<1>4. CASE files' = Invalidated /\ UNCHANGED exists
  BY <1>1, <1>4, SameExists, CardTable
<1>5. CASE files' = Invalidated /\ exists' = OnInt
  <2>1. exists' = {f \in exists : f[1] # "ext"} \cup {} /\ {} \in SUBSET ({"ext"} \X Names)
    BY <1>5, OnIntIs
  <2> QED
    BY <1>1, <1>5, <2>1, CardTable
<1> QED
  BY <1>2, <1>3, <1>4, <1>5

LEMMA TickTable ==
    ASSUME IInv, storage_tick
    PROVE  Table!TCard \/ UNCHANGED <<exists, Held>>
<1>1. UNCHANGED <<file_id, type, pc, path>> /\ \A d \in Clients : Holds(d)' <=> Holds(d)
  BY DEF storage_tick, clientVars, Holds
<1>2. CASE Mount
  <2>1. files' = Invalidated /\ \E s \in SUBSET ({"ext"} \X Names) : exists' = OnInt \cup s
    BY <1>2 DEF Mount
  <2> QED
    BY <1>1, <2>1, OnIntIs, CardTable
<1>3. CASE Unmount
  <2>1. files' = Invalidated /\ UNCHANGED exists
    BY <1>3 DEF Unmount
  <2> QED
    BY <1>1, <2>1, SameExists, CardTable
<1>4. CASE UNCHANGED <<files, exists>>
  BY <1>1, <1>4, SameFilesHeld
<1> QED
  BY <1>2, <1>3, <1>4 DEF storage_tick

LEMMA NextTable ==
    ASSUME IInv, StorageAssumption, [Next]_vars
    PROVE  Table!TNext \/ UNCHANGED <<exists, Held>>
<1>1. ASSUME NEW c \in Clients, ClientStep(c) PROVE UNCHANGED <<exists, Held>>
  BY <1>1, ClientTable
<1>2. ASSUME NEW c \in Clients, storage_process_message(c)
      PROVE  Table!TNext \/ UNCHANGED <<exists, Held>>
  BY <1>2, AnswerTable, OpenTable, CloseTable, RemoveTable, MediaTable
     DEF storage_process_message, Table!TNext
<1>3. CASE storage_tick
  BY <1>3, TickTable DEF Table!TNext
<1>4. CASE Flip \/ UNCHANGED vars
  <2>1. UNCHANGED <<files, exists, file_id, type, pc, path>>
    BY <1>4 DEF Flip, vars, clientVars
  <2> QED
    BY <2>1, SameFilesHeld DEF Holds
<1> QED
  BY <1>1, <1>2, <1>3, <1>4 DEF Next

(* To its clients the storage is a table of files with one holder each: lists,
   reused addresses, retried opens and a card that comes and goes with files
   open are steps of FileTable, or none that a client could see. *)
THEOREM StorageImplementsFileTable == Spec => ImplementsFileTable
<1>1. Init => Table!TInit
  <2> SUFFICES ASSUME Init PROVE Table!TInit
    OBVIOUS
  <2>1. Holders = {}
    BY DEF Init, Holders, Holds
  <2>2. Held = {}
    BY <2>1 DEF Held
  <2> QED
    BY <2>2 DEF Init, Held, Holders, Table!TInit
<1>2. IInv /\ [Next]_vars => [Table!TNext]_(Table!tvars)
  BY NextTable, StorageAssumption DEF Held, Holders, Table!tvars
<1> QED
  BY <1>1, <1>2, StorageInvariant, PTL DEF Spec, ImplementsFileTable, Table!TSpec
===============================================================================
