---------------------------- MODULE ServiceConfig ----------------------------
(***************************************************************************)
(* The configuration files and their update by the service web:            *)
(* ServiceConfigManager (service_web/src/service_config_manager.cpp).  A   *)
(* candidate is staged under a token after the set that it would make has  *)
(* been validated; activation validates again, keeps the present file as   *)
(* .previous and replaces it.  Others may edit the files at any time.      *)
(*                                                                         *)
(* A file either can be parsed or not, and has names: the signals that a   *)
(* DBC defines, or those that a logging or dash configuration refers to.   *)
(* Updates are enabled; otherwise every call returns before it does         *)
(* anything.                                                               *)
(***************************************************************************)
EXTENDS Naturals, Sequences

CONSTANTS
  Names,        (* names of signals                                        *)
  Deployed,     (* the files at first                                      *)
  Candidates,   (* what may be uploaded: types and contents                *)
  Edits,        (* what others may write: types and contents               *)
  MaxTokens,    (* bound: candidates staged                                *)
  MaxEdits      (* bound: edits by others                                  *)

Types == {"dbc", "logging", "dash"}
Contents == [sound : BOOLEAN, names : SUBSET Names]

(* validateSet *)
ValidSet(set) ==
  /\ \A type \in Types : set[type].sound
  /\ set["logging"].names \cup set["dash"].names \subseteq set["dbc"].names

ASSUME ConfigAssumption ==
  /\ Deployed \in [Types -> Contents] /\ ValidSet(Deployed)
  /\ Candidates \cup Edits \subseteq [type : Types, contents : Contents]
  /\ MaxTokens \in Nat /\ MaxEdits \in Nat

VARIABLES
  file,         (* the three files                                         *)
  previous,     (* the file that was replaced last, as its .previous       *)
  staged,       (* staged_, with the contents of its file; token 0: none   *)
  activation,   (* activate: the step it is at, and what it has read       *)
  tokens,       (* tokens given so far                                     *)
  edits,        (* edits so far                                            *)
  edited,       (* history: files were edited since an activation last     *)
                (* looked at them and succeeded                            *)
  named         (* history: what each token was given for                  *)

configVars == <<file, previous, staged, activation, tokens, edits, edited, named>>

NoContents == [sound |-> FALSE, names |-> {}]
NotStaged == [token |-> 0, type |-> "dbc", contents |-> NoContents]
(* "none", "validated" with both files read, or "saved" as .previous; the  *)
(* token it was asked for, and whether it is undisturbed by edits so far.  *)
NoActivation == [step |-> "none", token |-> 0, current |-> NoContents, undisturbed |-> TRUE]
Activating == activation.step # "none"

ConfigInit ==
  /\ file = Deployed /\ previous = [type |-> "dbc", contents |-> NoContents]
  /\ staged = NotStaged /\ activation = NoActivation
  /\ tokens = 0 /\ edits = 0 /\ edited = FALSE /\ named = <<>>

With(type, contents) == [file EXCEPT ![type] = contents]

(* stage.  The candidate before is dropped whatever comes of this one; its *)
(* file may fail to be written, and it may not fit.                        *)
Stage(candidate) ==
  /\ tokens < MaxTokens
  /\ UNCHANGED <<file, previous, activation, edits, edited>>
  /\ \/ /\ ValidSet(With(candidate.type, candidate.contents))
        /\ tokens' = tokens + 1
        /\ staged' = [token |-> tokens', type |-> candidate.type,
                      contents |-> candidate.contents]
        /\ named' = Append(named, candidate)
     \/ staged' = NotStaged /\ UNCHANGED <<tokens, named>>

(* Faulty: any token will do. *)
MatchesType(type, token) == token # 0 /\ staged.token # 0 /\ type = staged.type

(* A token is refused when another candidate has been staged since, and    *)
(* when it has been used.                                                  *)
Matches(type, token) == token # 0 /\ token = staged.token /\ type = staged.type

ActivationOf(token) ==
  [step |-> "validated", token |-> token, current |-> file[staged.type],
   undisturbed |-> TRUE]

(* Faulty: what was valid when it was staged is taken to be so still. *)
ValidateOnce(token) == activation' = ActivationOf(token)

(* activate, up to the first write. *)
Validate(token) ==
  /\ ValidSet(With(staged.type, staged.contents))
  /\ activation' = ActivationOf(token)

SavePrevious ==
  /\ activation.step = "validated"
  /\ previous' = [type |-> staged.type, contents |-> activation.current]
  /\ activation' = [activation EXCEPT !.step = "saved"]
  /\ UNCHANGED <<file, staged, tokens, edits, edited, named>>

Replace ==
  /\ activation.step = "saved"
  /\ file' = With(staged.type, staged.contents)
  /\ staged' = NotStaged
  /\ edited' = (edited /\ ~activation.undisturbed)
  /\ activation' = NoActivation
  /\ UNCHANGED <<previous, tokens, edits, named>>

(* One of the two writes fails.  The candidate stays staged, the .previous *)
(* that was written stays written.                                         *)
WriteFails ==
  /\ Activating
  /\ activation' = NoActivation
  /\ UNCHANGED <<file, previous, staged, tokens, edits, edited, named>>

(* The process ends, and may be in the middle of an activation. *)
ForgetStaged ==
  /\ staged' = NotStaged /\ activation' = NoActivation
  /\ UNCHANGED <<file, previous, tokens, edits, edited, named>>

(* Somebody else writes a file. *)
Edit(change) ==
  /\ edits < MaxEdits
  /\ edits' = edits + 1
  /\ file' = With(change.type, change.contents)
  /\ edited' = TRUE
  /\ activation' = [activation EXCEPT !.undisturbed = FALSE]
  /\ UNCHANGED <<previous, staged, tokens, named>>

-----------------------------------------------------------------------------
(* Properties *)

(* The files in use always are one valid set, whatever is staged, refused, *)
(* overtaken, half done or ended: as long as nobody else edits them, and   *)
(* again after an activation that edits did not disturb, whatever they     *)
(* were before.                                                            *)
SetStaysValid == ~edited => ValidSet(file)

(* An activation puts in use what the given token was given for, though    *)
(* candidates of other browsers come between, and what it replaces is the  *)
(* .previous of that file, unless an edit came between the two.            *)
ActivatedAsStaged ==
  [][file' # file /\ edits' = edits =>
       LET asked == named[activation.token]
       IN  /\ activation.step = "saved"
           /\ file' = With(asked.type, asked.contents)
           /\ activation.undisturbed =>
                previous = [type |-> asked.type, contents |-> file[asked.type]]]_configVars
=============================================================================
