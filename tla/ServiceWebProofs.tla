-------------------------- MODULE ServiceWebProofs --------------------------
(***************************************************************************)
(* Proofs about ServiceWeb, for any names, candidates, edits, browsers and *)
(* bounds: its configuration files first, then its connections.            *)
(*                                                                         *)
(* An activation validates, and writes later.  That is safe because        *)
(* nothing is staged while it goes on, and because an edit that comes      *)
(* between leaves a trace until the next activation without one.           *)
(*                                                                         *)
(* A connection is answered once because it has a buffer or a download     *)
(* until it is answered, and never both; a download is whole because its   *)
(* position, its output and what it has written move on together.          *)
(***************************************************************************)
EXTENDS ServiceWeb, TLAPS

Upload == [type : Types, contents : Contents]

(* Types. *)
ConfigTypeOK ==
  /\ file \in [Types -> Contents]
  /\ previous \in Upload
  /\ staged \in [token : Nat, type : Types, contents : Contents]
  /\ activation \in [step : {"none", "validated", "saved"}, token : Nat,
                     current : Contents, undisturbed : BOOLEAN]
  /\ tokens \in Nat /\ edits \in Nat /\ edited \in BOOLEAN
  /\ named \in Seq(Upload) /\ Len(named) = tokens

(* What is staged is what its token was given for. *)
StagedAsNamed ==
  staged.token # 0 =>
    /\ staged.token \in 1 .. tokens
    /\ named[staged.token] = [type |-> staged.type, contents |-> staged.contents]

(* An activation is about what is staged; without an edit it is still      *)
(* valid beside the files that it has read.                                *)
InProgress ==
  Activating =>
    /\ staged.token # 0 /\ activation.token = staged.token
    /\ ~activation.undisturbed => edited
    /\ activation.undisturbed =>
         /\ ValidSet(With(staged.type, staged.contents))
         /\ activation.current = file[staged.type]
    /\ activation.step = "saved" =>
         previous = [type |-> staged.type, contents |-> activation.current]

Inv == ConfigTypeOK /\ StagedAsNamed /\ InProgress /\ SetStaysValid

(* The values that stand for nothing have the types of the others. *)
LEMMA NothingTypes ==
  /\ [type |-> "dbc", contents |-> NoContents] \in Upload
  /\ NotStaged \in [token : Nat, type : Types, contents : Contents]
  /\ NoActivation \in [step : {"none", "validated", "saved"}, token : Nat,
                       current : Contents, undisturbed : BOOLEAN]
<1>1. NoContents \in Contents BY DEF NoContents, Contents
<1>2. "dbc" \in Types BY DEF Types
<1> QED BY <1>1, <1>2 DEF Upload, NotStaged, NoActivation

(* The files at first are one valid set. *)
LEMMA InitInv == Init => Inv
<1> SUFFICES ASSUME Init PROVE Inv OBVIOUS
<1> USE DEF Init, ConfigInit
<1>1. ConfigTypeOK
  <2>1. file \in [Types -> Contents] BY ConfigAssumption
  <2>2. named \in Seq(Upload) /\ Len(named) = tokens OBVIOUS
  <2>3. /\ previous \in Upload
        /\ staged \in [token : Nat, type : Types, contents : Contents]
        /\ activation \in [step : {"none", "validated", "saved"}, token : Nat,
                          current : Contents, undisturbed : BOOLEAN]
    BY NothingTypes
  <2>4. tokens \in Nat /\ edits \in Nat /\ edited \in BOOLEAN OBVIOUS
  <2> QED BY <2>1, <2>2, <2>3, <2>4 DEF ConfigTypeOK
<1>2. StagedAsNamed BY DEF StagedAsNamed, NotStaged
<1>3. InProgress BY DEF InProgress, Activating, NoActivation
<1>4. SetStaysValid BY ConfigAssumption DEF SetStaysValid, ValidSet
<1> QED BY <1>1, <1>2, <1>3, <1>4 DEF Inv

-----------------------------------------------------------------------------
(* What the steps of the service do to the configuration *)

Staging == \E candidate \in Candidates : Free /\ Stage(candidate)

Asked ==
  \E type \in Types, token \in 1 .. tokens :
    /\ Free /\ Matches(type, token) /\ Validate(token)
    /\ UNCHANGED <<file, previous, staged, tokens, edits, edited, named>>

Edited == \E change \in Edits : Edit(change)

ConfigStep ==
  \/ Staging \/ Asked \/ SavePrevious \/ Replace \/ WriteFails \/ ForgetStaged
  \/ Edited \/ UNCHANGED configVars

(* Every other step leaves the configuration alone. *)
LEMMA StepIsConfigStep == [Next]_vars => ConfigStep
<1> SUFFICES ASSUME [Next]_vars PROVE ConfigStep OBVIOUS
<1> USE DEF ConfigStep
<1>1. CASE \E c \in Clients : ConnectionStep(c)
  BY <1>1 DEF ConnectionStep
<1>2. CASE \E c \in Clients : RequestStep(c)
  <2> PICK c \in Clients : RequestStep(c) BY <1>2
  <2>1. CASE OtherRequest(c) \/ LogFileRequest(c) \/ DeleteRequest(c)
    BY <2>1 DEF OtherRequest, LogFileRequest, DeleteRequest
  <2>2. CASE \E candidate \in Candidates : StageRequest(c, candidate)
    BY <2>2 DEF StageRequest, Staging
  <2>3. CASE \E type \in Types, token \in 1 .. tokens : ActivateRequest(c, type, token)
    BY <2>3 DEF ActivateRequest, Asked
  <2>4. CASE \E action \in Actions : ActionRequest(c, action)
    BY <2>4 DEF ActionRequest
  <2> QED BY <2>1, <2>2, <2>3, <2>4 DEF RequestStep
<1>3. CASE ActivationSaves \/ ActivationEnds
  BY <1>3 DEF ActivationSaves, ActivationEnds
<1>4. CASE ActionEnds \/ Restart
  BY <1>4 DEF ActionEnds, Restart
<1>5. CASE OutsideStep
  BY <1>5 DEF OutsideStep, Edited
<1>6. CASE UNCHANGED vars
  BY <1>6 DEF vars
<1> QED BY <1>1, <1>2, <1>3, <1>4, <1>5, <1>6 DEF Next

-----------------------------------------------------------------------------
(* The invariant *)

(* Putting a candidate into the set gives a set of the same type. *)
LEMMA WithType ==
  ASSUME NEW type \in Types, NEW contents \in Contents, file \in [Types -> Contents]
  PROVE  With(type, contents) \in [Types -> Contents]
BY DEF With

(* Each step preserves the types. *)
LEMMA TypeStep == ConfigTypeOK /\ StagedAsNamed /\ ConfigStep => ConfigTypeOK'
<1> SUFFICES ASSUME ConfigTypeOK, StagedAsNamed, ConfigStep PROVE ConfigTypeOK' OBVIOUS
<1> USE DEF ConfigTypeOK, Upload
<1>1. CASE Staging
  <2> PICK candidate \in Candidates : Stage(candidate) BY <1>1 DEF Staging
  <2>1. candidate \in Upload BY ConfigAssumption
  <2>2. CASE /\ tokens' = tokens + 1
             /\ staged' = [token |-> tokens', type |-> candidate.type,
                           contents |-> candidate.contents]
             /\ named' = Append(named, candidate)
    BY <2>1, <2>2 DEF Stage
  <2>3. CASE staged' = NotStaged /\ UNCHANGED <<tokens, named>>
    BY <2>3 DEF Stage, NotStaged, NoContents, Types, Contents
  <2> QED BY <2>2, <2>3 DEF Stage
<1>2. CASE Asked
  BY <1>2 DEF Asked, Validate, ActivationOf
<1>3. CASE SavePrevious
  BY <1>3 DEF SavePrevious
<1>4. CASE Replace
  <2>1. file' \in [Types -> Contents] BY <1>4, WithType DEF Replace
  <2> QED BY <1>4, <2>1, NothingTypes DEF Replace
<1>5. CASE WriteFails \/ ForgetStaged
  BY <1>5, NothingTypes DEF WriteFails, ForgetStaged
<1>6. CASE Edited
  <2> PICK change \in Edits : Edit(change) BY <1>6 DEF Edited
  <2>1. change \in Upload BY ConfigAssumption
  <2>2. file' \in [Types -> Contents] BY <2>1, WithType DEF Edit
  <2>3. activation' \in [step : {"none", "validated", "saved"}, token : Nat,
                         current : Contents, undisturbed : BOOLEAN]
    BY DEF Edit
  <2> QED BY <2>2, <2>3 DEF Edit
<1>7. CASE UNCHANGED configVars
  BY <1>7 DEF configVars
<1> QED BY <1>1, <1>2, <1>3, <1>4, <1>5, <1>6, <1>7 DEF ConfigStep

(* Each step keeps what is staged with its token. *)
LEMMA StagedStep == ConfigTypeOK /\ StagedAsNamed /\ ConfigStep => StagedAsNamed'
<1> SUFFICES ASSUME ConfigTypeOK, StagedAsNamed, ConfigStep PROVE StagedAsNamed' OBVIOUS
<1> USE DEF ConfigTypeOK, StagedAsNamed, Upload
<1>1. CASE Staging
  <2> PICK candidate \in Candidates : Stage(candidate) BY <1>1 DEF Staging
  <2>1. candidate \in Upload BY ConfigAssumption
  <2>2. CASE /\ tokens' = tokens + 1
             /\ staged' = [token |-> tokens', type |-> candidate.type,
                           contents |-> candidate.contents]
             /\ named' = Append(named, candidate)
    <3>1. named'[tokens'] = candidate BY <2>1, <2>2
    <3>2. candidate = [type |-> candidate.type, contents |-> candidate.contents] BY <2>1
    <3> QED BY <2>2, <3>1, <3>2
  <2>3. CASE staged' = NotStaged
    BY <2>3 DEF NotStaged
  <2> QED BY <2>2, <2>3 DEF Stage
<1>2. CASE Replace \/ ForgetStaged
  BY <1>2 DEF Replace, ForgetStaged, NotStaged
<1>3. CASE Asked \/ SavePrevious \/ WriteFails \/ Edited \/ UNCHANGED configVars
  BY <1>3 DEF Asked, SavePrevious, WriteFails, Edited, Edit, configVars
<1> QED BY <1>1, <1>2, <1>3 DEF ConfigStep

(* Each step keeps what an activation relies on: nothing is staged         *)
(* meanwhile, and an edit is remembered. *)
LEMMA ProgressStep ==
  ConfigTypeOK /\ StagedAsNamed /\ InProgress /\ ConfigStep => InProgress'
<1> SUFFICES ASSUME ConfigTypeOK, StagedAsNamed, InProgress, ConfigStep
             PROVE  InProgress'
  OBVIOUS
<1> USE DEF ConfigTypeOK, InProgress, Activating
<1>1. CASE Staging
  BY <1>1 DEF Staging, Stage, Free
<1>2. CASE Asked
  <2> PICK type \in Types, token \in 1 .. tokens :
        Free /\ Matches(type, token) /\ Validate(token) BY <1>2 DEF Asked
  <2>1. UNCHANGED <<file, staged, edited, previous>> BY <1>2 DEF Asked
  <2>2. activation' = [step |-> "validated", token |-> token, current |-> file[staged.type],
                       undisturbed |-> TRUE]
    BY DEF Validate, ActivationOf
  <2>3. token = staged.token /\ token # 0 BY DEF Matches
  <2>4. ValidSet(With(staged.type, staged.contents))' BY <2>1 DEF Validate, ValidSet, With
  <2> QED BY <2>1, <2>2, <2>3, <2>4
<1>3. CASE SavePrevious
  <2>1. ValidSet(With(staged.type, staged.contents))
          => ValidSet(With(staged.type, staged.contents))'
    BY <1>3 DEF SavePrevious, ValidSet, With
  <2> QED BY <1>3, <2>1 DEF SavePrevious
<1>4. CASE Replace \/ WriteFails \/ ForgetStaged
  BY <1>4 DEF Replace, WriteFails, ForgetStaged, NoActivation
<1>5. CASE Edited
  BY <1>5 DEF Edited, Edit
<1>6. CASE UNCHANGED configVars
  <2>1. ValidSet(With(staged.type, staged.contents))
          => ValidSet(With(staged.type, staged.contents))'
    BY <1>6 DEF configVars, ValidSet, With
  <2> QED BY <1>6, <2>1 DEF configVars
<1> QED BY <1>1, <1>2, <1>3, <1>4, <1>5, <1>6 DEF ConfigStep

(* The files change by an edit, which is remembered, or by an activation,  *)
(* which was validated against the present companions unless an edit is    *)
(* remembered. *)
LEMMA ValidStep ==
  ConfigTypeOK /\ InProgress /\ SetStaysValid /\ ConfigStep => SetStaysValid'
<1> SUFFICES ASSUME ConfigTypeOK, InProgress, SetStaysValid, ConfigStep
             PROVE  SetStaysValid'
  OBVIOUS
<1> USE DEF ConfigTypeOK, SetStaysValid
<1>1. CASE Replace
  <2> SUFFICES ASSUME ~edited' PROVE ValidSet(file') BY DEF ValidSet
  <2>1. Activating BY <1>1 DEF Replace, Activating
  <2>2. activation.undisturbed BY <1>1, <2>1 DEF Replace, InProgress
  <2>3. ValidSet(With(staged.type, staged.contents)) BY <2>1, <2>2 DEF InProgress
  <2> QED BY <1>1, <2>3 DEF Replace
<1>2. CASE Edited
  BY <1>2 DEF Edited, Edit
<1>3. CASE Staging \/ Asked \/ SavePrevious \/ WriteFails \/ ForgetStaged \/ UNCHANGED configVars
  <2>1. UNCHANGED <<file, edited>>
    BY <1>3 DEF Staging, Stage, Asked, SavePrevious, WriteFails, ForgetStaged, configVars
  <2> QED BY <2>1 DEF ValidSet
<1> QED BY <1>1, <1>2, <1>3 DEF ConfigStep

(* The invariant is inductive. *)
LEMMA Step == Inv /\ [Next]_vars => Inv'
BY StepIsConfigStep, TypeStep, StagedStep, ProgressStep, ValidStep DEF Inv

(* It holds in every state of a behaviour. *)
LEMMA Invariance == Spec => []Inv
BY InitInv, Step, PTL DEF Spec

-----------------------------------------------------------------------------
(* The theorems *)

(* The files in use are a valid set until somebody edits them, and again   *)
(* after an activation without an edit.                                    *)
THEOREM FilesStayValid == Spec => []SetStaysValid
BY Invariance, PTL DEF Inv

(* The only step but an edit that changes a file puts in what its token    *)
(* was given for, after the file that it replaces has been saved.          *)
LEMMA ActivationStep ==
  Inv /\ ConfigStep /\ file' # file /\ edits' = edits =>
    LET asked == named[activation.token]
    IN  /\ activation.step = "saved"
        /\ file' = With(asked.type, asked.contents)
        /\ activation.undisturbed =>
             previous = [type |-> asked.type, contents |-> file[asked.type]]
<1> SUFFICES ASSUME Inv, ConfigStep, file' # file, edits' = edits
             PROVE  LET asked == named[activation.token]
                    IN  /\ activation.step = "saved"
                        /\ file' = With(asked.type, asked.contents)
                        /\ activation.undisturbed =>
                             previous = [type |-> asked.type, contents |-> file[asked.type]]
  OBVIOUS
<1>1. ~Edited BY DEF Edited, Edit, Inv, ConfigTypeOK
<1>2. Replace
  BY <1>1 DEF ConfigStep, Staging, Stage, Asked, SavePrevious, WriteFails, ForgetStaged, configVars
<1>3. /\ activation.step = "saved" /\ Activating
      /\ file' = With(staged.type, staged.contents)
  BY <1>2 DEF Replace, Activating
<1>4. named[activation.token] = [type |-> staged.type, contents |-> staged.contents]
  BY <1>3 DEF Inv, InProgress, StagedAsNamed
<1> QED BY <1>3, <1>4 DEF Inv, InProgress

(* Every activation puts in use what was asked for and keeps what it       *)
(* replaces.                                                               *)
THEOREM ActivationsAsStaged == Spec => ActivatedAsStaged
<1>1. Inv /\ [Next]_vars =>
        [file' # file /\ edits' = edits =>
           LET asked == named[activation.token]
           IN  /\ activation.step = "saved"
               /\ file' = With(asked.type, asked.contents)
               /\ activation.undisturbed =>
                    previous = [type |-> asked.type, contents |-> file[asked.type]]]_configVars
  BY StepIsConfigStep, ActivationStep
<1> QED BY <1>1, Invariance, PTL DEF Spec, ActivatedAsStaged
-----------------------------------------------------------------------------
(* The connections *)

Reply == [responses : Nat, malformed : BOOLEAN, length : Nat, units : Nat]

(* Types; only a request that is being read is timed. *)
HttpTypeOK ==
  /\ link \in [Clients -> {"off", "pending", "open", "closing"}]
  /\ buffers \subseteq Clients /\ downloads \subseteq Clients /\ timers \subseteq buffers
  /\ at \in [Clients -> Nat] /\ output \in [Clients -> Nat]
  /\ logFile \in [size : Nat, state : {"active", "complete", "deleted"}]
  /\ reply \in [Clients -> Reply]

(* An open connection is in one of the two maps, and has been answered     *)
(* exactly if it is a download.  What a download has written and is about  *)
(* to write is what it has read, and its header; the file has not become   *)
(* shorter.  Once it is closing, only a malformed request is still timed,  *)
(* and what waits will complete the file.                                  *)
Connection(c) ==
  /\ link[c] \in {"off", "pending"} =>
       c \notin buffers \cup downloads /\ output[c] = 0 /\ reply[c] = NoReply
  /\ link[c] = "open" =>
       \/ c \in buffers \ downloads /\ output[c] = 0 /\ reply[c] = NoReply
       \/ /\ c \in downloads \ buffers
          /\ reply[c].responses = 1 /\ ~reply[c].malformed
          /\ reply[c].units + output[c] = at[c] + 1 /\ reply[c].length <= logFile.size
  /\ link[c] = "closing" =>
       /\ c \notin downloads
       /\ reply[c].responses >= 1
       /\ reply[c].responses > 1 \/ c \in timers => reply[c].malformed
       /\ reply[c].units + output[c] > reply[c].length

HttpInv == HttpTypeOK /\ \A c \in Clients : Connection(c)

(* An activation is answered to one of the clients. *)
AskedByClients == asking \subseteq Clients

LEMMA AskingStep == AskedByClients /\ [Next]_vars => AskedByClients'
BY DEF AskedByClients, Next, ConnectionStep, RequestStep, OtherRequest, LogFileRequest, DeleteRequest,
       StageRequest, ActivateRequest, ActionRequest, ActivationSaves, ActivationEnds,
       ActionEnds, Restart, OutsideStep, vars

(* Everything but a connection stays, or the file grows: the other         *)
(* connections remain as they are.                                         *)
OnlyAbout(c) ==
  /\ \A d \in Clients \ {c} :
       /\ link'[d] = link[d] /\ at'[d] = at[d] /\ output'[d] = output[d]
       /\ reply'[d] = reply[d]
       /\ d \in buffers' <=> d \in buffers
       /\ d \in timers' <=> d \in timers
       /\ d \in downloads' <=> d \in downloads
  /\ logFile'.size = logFile.size

(* A step about one connection needs to be looked at there only. *)
LEMMA OneConnection ==
  ASSUME HttpInv, HttpTypeOK', NEW c \in Clients, OnlyAbout(c), Connection(c)'
  PROVE  HttpInv'
<1>1. ASSUME NEW d \in Clients \ {c} PROVE Connection(d)'
  BY DEF HttpInv, Connection, OnlyAbout
<1> QED BY <1>1 DEF HttpInv

(* Without any connection there is nothing to show. *)
LEMMA HttpInitInv == Init => HttpInv
BY HttpAssumption DEF Init, HttpInit, HttpInv, HttpTypeOK, Connection, NoReply, Reply

(* A connection that is removed, or of which all are closed, is as at      *)
(* first.                                                                  *)
LEMMA RemoveStep ==
  ASSUME HttpInv, NEW c \in Clients, RemoveClient(c), UNCHANGED logFile
  PROVE  HttpInv'
<1> USE DEF RemoveClient, NoReply
<1>1. HttpTypeOK' BY DEF HttpInv, HttpTypeOK, Reply
<1>2. OnlyAbout(c) BY DEF OnlyAbout, HttpInv, HttpTypeOK
<1>3. Connection(c)' BY DEF HttpInv, HttpTypeOK, Connection
<1> QED BY <1>1, <1>2, <1>3, OneConnection

LEMMA CloseAllStep == ASSUME HttpInv, CloseAll PROVE HttpInv'
BY DEF HttpInv, HttpTypeOK, Connection, CloseAll, NoReply, Reply

(* acceptConnections and the peer. *)
LEMMA AcceptStep ==
  ASSUME HttpInv, NEW c \in Clients, Accept(c) \/ Connect(c)
  PROVE  HttpInv'
<1> USE DEF Accept, Connect
<1>1. HttpTypeOK' BY DEF HttpInv, HttpTypeOK
<1>2. OnlyAbout(c) BY DEF OnlyAbout, HttpInv, HttpTypeOK
<1>3. Connection(c)' BY DEF HttpInv, HttpTypeOK, Connection
<1> QED BY <1>1, <1>2, <1>3, OneConnection

(* A response to a connection that has none, or to the sender of a         *)
(* malformed request. *)
LEMMA RespondStep ==
  ASSUME HttpInv, NEW c \in Clients, NEW malformed \in BOOLEAN, Respond(c, malformed),
         (link[c] = "open" /\ c \in buffers) \/ c \in timers,
         \/ UNCHANGED <<buffers, timers>> /\ malformed
         \/ buffers' = buffers /\ timers' = timers \ {c}
         \/ buffers' = buffers \ {c} /\ timers' = timers \ {c},
         UNCHANGED <<downloads, at>>, logFile'.size = logFile.size,
         logFile' \in [size : Nat, state : {"active", "complete", "deleted"}]
  PROVE  HttpInv'
<1> DEFINE m == reply[c].malformed \/ malformed
<1> USE DEF NoReply
<1>1. reply[c] \in Reply /\ output[c] \in Nat BY DEF HttpInv, HttpTypeOK
<1>2. m \in BOOLEAN BY Zenon
<1>3. /\ link' = [link EXCEPT ![c] = "closing"] /\ output' = [output EXCEPT ![c] = @ + 1]
      /\ reply' = [reply EXCEPT ![c].responses = @ + 1, ![c].malformed = m]
  BY DEF Respond
<1>4. malformed => m OBVIOUS
<1>5. m => reply[c].malformed \/ malformed OBVIOUS
<1> HIDE DEF m
<1>6. /\ reply' \in [Clients -> Reply]
      /\ reply'[c].responses = reply[c].responses + 1 /\ reply'[c].malformed = m
      /\ reply'[c].length = reply[c].length /\ reply'[c].units = reply[c].units
      /\ \A d \in Clients \ {c} : reply'[d] = reply[d]
  <2> DEFINE h == [reply[c] EXCEPT !.responses = @ + 1]
             r == [h EXCEPT !.malformed = m]
  <2>1. reply \in [Clients -> Reply] BY DEF HttpInv, HttpTypeOK
  <2>2. reply' = [reply EXCEPT ![c] = r] BY <1>3, <2>1 DEF Reply
  <2>3. /\ h \in Reply /\ h.responses = reply[c].responses + 1
        /\ h.length = reply[c].length /\ h.units = reply[c].units
    BY <1>1 DEF Reply
  <2> HIDE DEF h
  <2>4. /\ r \in Reply
        /\ r.responses = reply[c].responses + 1 /\ r.malformed = m
        /\ r.length = reply[c].length /\ r.units = reply[c].units
    BY <2>3, <1>2 DEF Reply
  <2> HIDE DEF r
  <2> QED BY <2>1, <2>2, <2>4
<1>7. HttpTypeOK' BY <1>1, <1>3, <1>6 DEF HttpInv, HttpTypeOK
<1>8. OnlyAbout(c) BY <1>3, <1>6 DEF OnlyAbout, HttpInv, HttpTypeOK
<1>9. c \in buffers /\ link[c] \in {"open", "closing"}
  BY DEF HttpInv, HttpTypeOK, Connection
<1>10. Connection(c)'
  BY <1>1, <1>3, <1>4, <1>6, <1>9 DEF HttpInv, HttpTypeOK, Connection, Reply
<1> QED BY <1>7, <1>8, <1>10, OneConnection

(* The position and the output of a download move on together, and it ends *)
(* at the end of the file.                                                 *)
LEMMA DownloadStep ==
  ASSUME HttpInv, NEW c \in Clients, NEW waiting \in Nat, NEW position \in Nat,
         WriteFileChunk(c, waiting, position), UNCHANGED logFile,
         buffers' = buffers \ {c}, timers' = timers \ {c},
         reply' \in [Clients -> Reply], \A d \in Clients \ {c} : reply'[d] = reply[d],
         reply'[c].responses = 1, ~reply'[c].malformed,
         reply'[c].units + waiting = position + 1, reply'[c].length <= logFile.size
  PROVE  HttpInv'
<1>1. /\ output \in [Clients -> Nat] /\ at \in [Clients -> Nat] /\ logFile.size \in Nat
      /\ link \in [Clients -> {"off", "pending", "open", "closing"}]
      /\ reply \in [Clients -> Reply]
  BY DEF HttpInv, HttpTypeOK
<1>2. PICK read \in Nat :
        /\ output' = [output EXCEPT ![c] = waiting + read]
        /\ at' = [at EXCEPT ![c] = position + read]
        /\ downloads' = IF position + read = logFile.size
                        THEN downloads \ {c} ELSE downloads \cup {c}
        /\ link' = [link EXCEPT ![c] = IF position + read = logFile.size
                                       THEN "closing" ELSE "open"]
  <2>1. PICK read \in 0 .. Least(IF waiting < MaxQueued THEN MaxQueued - waiting ELSE 0,
                                 logFile.size - position) :
          /\ output' = [output EXCEPT ![c] = waiting + read]
          /\ at' = [at EXCEPT ![c] = position + read]
          /\ downloads' = IF position + read = logFile.size
                          THEN downloads \ {c} ELSE downloads \cup {c}
          /\ link' = [link EXCEPT ![c] = IF position + read = logFile.size
                                         THEN "closing" ELSE "open"]
    BY DEF WriteFileChunk
  <2>2. read \in Nat BY <1>1, HttpAssumption DEF Least
  <2> QED BY <2>1, <2>2
<1>3. HttpTypeOK' BY <1>1, <1>2 DEF HttpInv, HttpTypeOK
<1>4. OnlyAbout(c) BY <1>1, <1>2 DEF OnlyAbout, HttpInv, HttpTypeOK
<1>5. Connection(c)'
  <2> DEFINE r == reply'[c]
  <2>1. output'[c] = waiting + read /\ at'[c] = position + read
    BY <1>1, <1>2
  <2>2. r.units \in Nat /\ r.length \in Nat BY DEF Reply
  <2>3. r.units + (waiting + read) = (position + read) + 1 BY <2>2
  <2>4. CASE position + read = logFile.size
    <3>1. link'[c] = "closing" /\ c \notin downloads' /\ c \notin timers'
      BY <1>1, <1>2, <2>4
    <3> QED BY <2>1, <2>2, <2>3, <2>4, <3>1, <1>1 DEF Connection
  <2>5. CASE position + read # logFile.size
    <3>1. link'[c] = "open" /\ c \in downloads' \ buffers' BY <1>1, <1>2, <2>5
    <3> QED BY <2>1, <2>2, <2>3, <3>1 DEF Connection
  <2> QED BY <2>4, <2>5
<1> QED BY <1>3, <1>4, <1>5, OneConnection

(* A unit moves from the output to what has been written. *)
LEMMA WrittenStep ==
  ASSUME HttpInv, NEW c \in Clients, BytesWritten(c)
  PROVE  HttpInv'
<1> DEFINE r == [reply[c] EXCEPT !.units = @ + 1]
<1>1. reply[c] \in Reply /\ output[c] \in Nat \ {0} /\ at[c] \in Nat
  BY DEF HttpInv, HttpTypeOK, BytesWritten
<1>2. CASE link[c] = "closing" /\ output[c] = 1
  BY <1>2, RemoveStep DEF BytesWritten
<1>3. CASE ~(link[c] = "closing" /\ output[c] = 1) /\ c \in downloads
  <2>1. /\ WriteFileChunk(c, output[c] - 1, at[c]) /\ UNCHANGED <<buffers, timers, logFile>>
        /\ reply' = [reply EXCEPT ![c].units = @ + 1]
    BY <1>3 DEF BytesWritten
  <2>2. link[c] = "open" /\ c \notin buffers
    BY <1>1, <1>3 DEF HttpInv, HttpTypeOK, Connection
  <2>3. /\ r \in Reply /\ r.responses = 1 /\ ~r.malformed
        /\ r.units + (output[c] - 1) = at[c] + 1 /\ r.length <= logFile.size
    BY <1>1, <2>2, <1>3 DEF HttpInv, HttpTypeOK, Connection, Reply
  <2>4. buffers' = buffers \ {c} /\ timers' = timers \ {c}
    BY <2>1, <2>2 DEF HttpInv, HttpTypeOK
  <2>5. reply' = [reply EXCEPT ![c] = r] BY <2>1, <1>1 DEF HttpInv, HttpTypeOK
  <2>6. output[c] - 1 \in Nat BY <1>1
  <2> HIDE DEF r
  <2>7. /\ reply'[c] = r /\ reply' \in [Clients -> Reply]
        /\ \A d \in Clients \ {c} : reply'[d] = reply[d]
    BY <2>3, <2>5 DEF HttpInv, HttpTypeOK
  <2> QED BY <1>1, <2>1, <2>3, <2>4, <2>6, <2>7, DownloadStep
<1>4. CASE ~(link[c] = "closing" /\ output[c] = 1) /\ c \notin downloads
  <2>1. /\ reply' = [reply EXCEPT ![c].units = @ + 1]
        /\ output' = [output EXCEPT ![c] = @ - 1]
        /\ UNCHANGED <<link, buffers, timers, downloads, at, logFile>>
    BY <1>4 DEF BytesWritten
  <2>2. link[c] = "closing" BY <1>1, <1>4 DEF HttpInv, HttpTypeOK, Connection
  <2>3. /\ reply' = [reply EXCEPT ![c] = r] /\ r \in Reply
        /\ r.responses = reply[c].responses /\ r.malformed = reply[c].malformed
        /\ r.length = reply[c].length /\ r.units = reply[c].units + 1
    BY <1>1, <2>1 DEF HttpInv, HttpTypeOK, Reply
  <2> HIDE DEF r
  <2>4. HttpTypeOK' BY <1>1, <2>1, <2>3 DEF HttpInv, HttpTypeOK
  <2>5. OnlyAbout(c) BY <2>1, <2>3 DEF OnlyAbout, HttpInv, HttpTypeOK
  <2>6. Connection(c)' BY <1>1, <2>1, <2>2, <2>3 DEF HttpInv, HttpTypeOK, Connection, Reply
  <2> QED BY <2>4, <2>5, <2>6, OneConnection
<1> QED BY <1>2, <1>3, <1>4

(* Answers of every kind to a request. *)
LEMMA AnswerStep ==
  ASSUME HttpInv, NEW c \in Clients, Answer(c) \/ AnswerWithFile(c) \/ DeleteSession(c)
  PROVE  HttpInv'
<1>1. logFile \in [size : Nat, state : {"active", "complete", "deleted"}]
  BY DEF HttpInv, HttpTypeOK
<1>2. CASE Answer(c)
  BY <1>1, <1>2, RespondStep DEF Answer, TakeRequest
<1>3. CASE AnswerWithFile(c)
  <2> DEFINE h == [reply[c] EXCEPT !.responses = @ + 1]
             r == [h EXCEPT !.length = logFile.size]
  <2>1. reply[c] = NoReply /\ c \in buffers
    BY <1>3 DEF AnswerWithFile, TakeRequest, HttpInv, Connection
  <2>2. /\ NoReply \in Reply
        /\ NoReply.responses = 0 /\ ~NoReply.malformed /\ NoReply.units = 0
    BY DEF NoReply, Reply
  <2>3. h \in Reply /\ h.responses = 1 /\ ~h.malformed /\ h.units = 0
    BY <2>1, <2>2 DEF Reply
  <2>4. reply' = [reply EXCEPT ![c] = r]
    BY <1>3 DEF AnswerWithFile, HttpInv, HttpTypeOK, Reply
  <2> HIDE DEF h
  <2>5. r \in Reply /\ r.responses = 1 /\ ~r.malformed /\ r.units = 0 /\ r.length = logFile.size
    BY <1>1, <2>3 DEF Reply
  <2>6. /\ WriteFileChunk(c, 1, 0) /\ UNCHANGED logFile
        /\ buffers' = buffers \ {c} /\ timers' = timers \ {c}
    BY <1>3 DEF AnswerWithFile, TakeRequest
  <2>7. r.units + 1 = 0 + 1 /\ r.length <= logFile.size BY <1>1, <2>5
  <2> HIDE DEF r
  <2>8. /\ reply'[c] = r /\ reply' \in [Clients -> Reply]
        /\ \A d \in Clients \ {c} : reply'[d] = reply[d]
    BY <2>4, <2>5 DEF HttpInv, HttpTypeOK
  <2>9. reply'[c].units + 1 = 0 + 1 /\ reply'[c].length <= logFile.size BY <2>7, <2>8
  <2> QED BY <2>5, <2>8, <2>6, <2>9, DownloadStep
<1>4. CASE DeleteSession(c)
  <2>1. /\ logFile'.size = logFile.size
        /\ logFile' \in [size : Nat, state : {"active", "complete", "deleted"}]
    BY <1>1, <1>4 DEF DeleteSession
  <2> QED BY <1>4, <2>1, RespondStep DEF DeleteSession, TakeRequest
<1> QED BY <1>2, <1>3, <1>4

(* The log may grow and be closed. *)
LEMMA LoggerStep == ASSUME HttpInv, LoggerWrites \/ LoggerCloses PROVE HttpInv'
<1>1. /\ logFile'.size \in Nat /\ logFile'.size >= logFile.size
      /\ logFile' \in [size : Nat, state : {"active", "complete", "deleted"}]
      /\ UNCHANGED <<serverVars, reply>>
  BY DEF HttpInv, HttpTypeOK, LoggerWrites, LoggerCloses
<1>2. HttpTypeOK' BY <1>1 DEF HttpInv, HttpTypeOK, serverVars
<1>3. ASSUME NEW c \in Clients PROVE Connection(c)'
  BY <1>1 DEF HttpInv, HttpTypeOK, Connection, Reply, serverVars
<1> QED BY <1>2, <1>3 DEF HttpInv

(* The invariant is inductive. *)
LEMMA HttpStep == HttpInv /\ AskedByClients /\ [Next]_vars => HttpInv'
<1> SUFFICES ASSUME HttpInv, AskedByClients, [Next]_vars PROVE HttpInv' OBVIOUS
<1>1. CASE \E c \in Clients : ConnectionStep(c)
  <2> PICK c \in Clients : ConnectionStep(c) BY <1>1
  <2>1. CASE Accept(c) BY <2>1, AcceptStep
  <2>2. CASE ReadMalformed(c)
    BY <2>2, RespondStep DEF ReadMalformed, HttpInv, HttpTypeOK
  <2>3. CASE Timeout(c)
    BY <2>3, RespondStep DEF Timeout, HttpInv, HttpTypeOK
  <2>4. CASE BytesWritten(c) BY <2>4, WrittenStep
  <2>5. CASE Hangup(c) BY <2>5, RemoveStep DEF Hangup
  <2> QED BY <2>1, <2>2, <2>3, <2>4, <2>5 DEF ConnectionStep
<1>2. CASE \E c \in Clients : RequestStep(c)
  <2> PICK c \in Clients : RequestStep(c) BY <1>2
  <2>1. CASE Answer(c) \/ AnswerWithFile(c) \/ DeleteSession(c) BY <2>1, AnswerStep
  <2>2. CASE UNCHANGED httpVars
    BY <2>2 DEF HttpInv, HttpTypeOK, Connection, httpVars, serverVars
  <2> QED BY <2>1, <2>2 DEF RequestStep, OtherRequest, LogFileRequest, DeleteRequest,
             StageRequest, ActivateRequest, ActionRequest
<1>3. CASE ActivationEnds
  <2> PICK c \in asking : Answer(c) BY <1>3 DEF ActivationEnds
  <2> QED BY AnswerStep DEF AskedByClients
<1>4. CASE Restart BY <1>4, CloseAllStep DEF Restart
<1>5. CASE OutsideStep
  <2>1. CASE \E c \in Clients : Connect(c) BY <2>1, AcceptStep
  <2>2. CASE LoggerWrites \/ LoggerCloses BY <2>2, LoggerStep
  <2>3. CASE UNCHANGED httpVars
    BY <2>3 DEF HttpInv, HttpTypeOK, Connection, httpVars, serverVars
  <2> QED BY <1>5, <2>1, <2>2, <2>3 DEF OutsideStep
<1>6. CASE ActivationSaves \/ ActionEnds \/ UNCHANGED vars
  BY <1>6 DEF ActivationSaves, ActionEnds, vars, HttpInv, HttpTypeOK, Connection, httpVars, serverVars
<1> QED BY <1>1, <1>2, <1>3, <1>4, <1>5, <1>6 DEF Next

LEMMA HttpInvariance == Spec => [](HttpInv /\ AskedByClients)
<1>1. Init => AskedByClients BY DEF Init, AskedByClients
<1> QED BY <1>1, HttpInitInv, HttpStep, AskingStep, PTL DEF Spec

(* A connection gets one response; only the sender of a malformed request  *)
(* may get a second one.                                                   *)
THEOREM OneAnswer == Spec => []AnsweredOnce
<1>1. HttpInv => AnsweredOnce
  BY DEF HttpInv, HttpTypeOK, Connection, AnsweredOnce, NoReply
<1> QED BY <1>1, HttpInvariance, PTL

(* A download is closed when the file has been written to the end that the *)
(* browser was told, or waits to be.                                       *)
THEOREM DownloadsAreWhole == Spec => []WholeFile
<1>1. HttpInv => WholeFile BY DEF HttpInv, Connection, WholeFile
<1> QED BY <1>1, HttpInvariance, PTL
=============================================================================
