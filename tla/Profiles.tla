------------------------------ MODULE Profiles ------------------------------
(***************************************************************************)
(* The credentials and profiles of one user's machine: the token store     *)
(* (keychain and ~/.aitask/credentials), the registry in                   *)
(* ~/.aitask/config.json and the `aitask auth` commands, which run as      *)
(* separate processes without a lock between them.  A step is one call of  *)
(* the keychain or of the file system.  One backend URL is modelled, so a  *)
(* slot is a profile or the slot of installs that had no profiles yet.     *)
(***************************************************************************)
EXTENDS Naturals, FiniteSets

CONSTANTS
  Proc,         \* processes of the command line that may run at once
  Profile,      \* valid profile names
  Default,      \* DefaultProfileName
  Token,        \* tokens the user imports
  LegacyToken,  \* the token an install without profiles left behind
  Legacy,       \* the slot it is stored in
  None,         \* nothing stored, no such file
  Empty,        \* a token file that was truncated and not written yet
  MaxCommands,  \* bound: commands started
  MaxFaults     \* bound: keychain calls and writes that fail, crashes

ASSUME ProfilesAssumption ==
  /\ Default \in Profile
  /\ LegacyToken \notin Token /\ Legacy \notin Profile
  /\ {None, Empty} \cap (Token \cup {LegacyToken}) = {}
  /\ None \notin Profile /\ None # Empty /\ None \notin Nat
  /\ IsFiniteSet(Proc)
  /\ MaxCommands \in Nat /\ MaxFaults \in Nat

Slot == Profile \cup {Legacy}
AnyToken == Token \cup {LegacyToken}
Command == {"import", "use", "remove", "list", "call"}

(* What config.json holds: the active profile and the names registered.    *)
Config == [active : Profile \cup {None}, profiles : SUBSET Profile]
NoConfig == [active |-> None, profiles |-> {}]

(* The text of a file: one that was truncated, or written by a second      *)
(* process over a longer one, is not JSON.                                 *)
Text == [form : {"whole", "truncated", "overwritten"}, cfg : Config]
Whole(c) == [form |-> "whole", cfg |-> c]
Truncated == [form |-> "truncated", cfg |-> NoConfig]
Inode == 1..(Cardinality(Proc) + 2)

VARIABLES
  darwin,      \* the machine has a keychain
  keychain,    \* slot -> token
  files,       \* slot -> token file under ~/.aitask/credentials
  content,     \* inode -> what a config file holds
  configFile,  \* inode of config.json
  tmpFile,     \* inode of config.json.tmp
  proc,        \* process -> the command it runs and how far it is
  started,     \* commands started so far
  faults,      \* failures so far
  latest,      \* history: profile -> token imported last, not removed since
  registered,  \* history: profiles registered and not removed since
  touched,     \* history: default was imported or removed by a command
  raced,       \* history: two updates of config.json overlapped
  refused,     \* history: the keychain refused a call
  halfWritten  \* history: a token file was truncated and never written

store == <<keychain, files>>
configs == <<content, configFile, tmpFile>>
history == <<latest, registered, touched, raced, refused, halfWritten>>
vars == <<darwin, store, configs, proc, started, faults, history>>

Idle == [pc |-> "idle", cmd |-> "call", profile |-> Default,
         slot |-> Default, token |-> None, cfg |-> NoConfig, fd |-> None,
         linked |-> TRUE]

Init ==
  /\ darwin \in BOOLEAN
  /\ \E inKeychain \in {FALSE, darwin} :
       /\ keychain = [s \in Slot |->
                        IF s = Legacy /\ inKeychain THEN LegacyToken
                                                    ELSE None]
       /\ files = [s \in Slot |->
                     IF s = Legacy /\ ~inKeychain THEN LegacyToken
                                                  ELSE None]
  /\ content = [i \in Inode |-> Whole(NoConfig)]
  /\ configFile = None /\ tmpFile = None
  /\ proc = [p \in Proc |-> Idle]
  /\ started = 0 /\ faults = 0
  /\ latest = [q \in Profile |-> None]
  /\ registered = {} /\ touched = FALSE
  /\ raced = FALSE /\ refused = FALSE /\ halfWritten = FALSE

-----------------------------------------------------------------------------
(* Helpers.                                                                *)

At(p, pc) == proc[p].pc = pc
Become(p, r) == proc' = [proc EXCEPT ![p] = r]
Goto(p, pc) == proc' = [proc EXCEPT ![p].pc = pc]
Finish(p) == Become(p, Idle)
Fail == faults < MaxFaults /\ faults' = faults + 1

(* LoadGlobalConfig: a missing file is an empty configuration.             *)
File == IF configFile = None THEN Whole(NoConfig) ELSE content[configFile]
Readable == File.form = "whole"
Stored == File.cfg

(* resolveEffectiveProfile: the flag, then the active profile, then the    *)
(* default, also when config.json cannot be read.                          *)
EffectiveProfile(flag) ==
  IF flag # None THEN flag
  ELSE IF Readable /\ Stored.active # None THEN Stored.active
  ELSE Default

(* Entries a configuration takes: what decides which of two is longer.     *)
Size(c) == Cardinality(c.profiles) + (IF c.active = None THEN 0 ELSE 1)
Over(old, new) ==
  IF old.form # "truncated" /\ Size(old.cfg) > Size(new)
  THEN [old EXCEPT !.form = "overwritten"]
  ELSE Whole(new)

(* The update a command makes to the configuration it read.                *)
Updated(r, c) ==
  CASE r.cmd = "use"    -> [c EXCEPT !.active = r.profile]
    [] r.cmd = "remove" -> [active |-> IF c.active = r.profile THEN None
                                       ELSE c.active,
                            profiles |-> c.profiles \ {r.profile}]
    [] OTHER            -> [c EXCEPT !.profiles = @ \cup {r.profile}]

-----------------------------------------------------------------------------
(* PersistentPreRunE and the command named on the command line.            *)

FirstStep(cmd) ==
  CASE cmd = "import" -> "whoami"
    [] cmd = "remove" -> "deleteKey"
    [] cmd = "call"   -> "loadKey"
    [] OTHER          -> "read"

Start(p) ==
  /\ At(p, "idle") /\ started < MaxCommands
  /\ started' = started + 1
  /\ \E cmd \in Command, flag \in Profile \cup {None}, t \in Token :
       LET q == EffectiveProfile(flag) IN
       /\ cmd \in {"use", "remove"} => flag # None
       /\ Become(p, [Idle EXCEPT !.pc = FirstStep(cmd), !.cmd = cmd,
                                 !.profile = q, !.slot = q,
                                 !.token = IF cmd = "import" THEN t
                                                             ELSE None])
  /\ UNCHANGED <<darwin, store, configs, faults, history>>

(* The backend knows the token, or the command ends with its answer.       *)
WhoAmI(p) ==
  /\ At(p, "whoami")
  /\ \/ /\ proc[p].token # Empty
        /\ Goto(p, IF proc[p].cmd = "import" THEN "save" ELSE "read")
     \/ Finish(p)
  /\ UNCHANGED <<darwin, store, configs, started, faults, history>>

-----------------------------------------------------------------------------
(* TokenStore.Save, called by an import and by the adoption of a legacy    *)
(* token.                                                                  *)

(* An import counts from the moment its token is in a store.               *)
Saved(p) ==
  latest' = IF proc[p].cmd = "import"
            THEN [latest EXCEPT ![proc[p].profile] = proc[p].token]
            ELSE latest
Touch(p) ==
  touched' = \/ touched
             \/ proc[p].cmd = "import" /\ proc[p].profile = Default

\* Bug variant: the legacy keychain entry is deleted before its token is saved.
SaveKeySweepsFirst(p) ==
  /\ At(p, "save") /\ darwin
  /\ IF proc[p].profile = Default /\ keychain[Legacy] # None
     THEN /\ keychain' = [keychain EXCEPT ![Legacy] = None]
          /\ UNCHANGED proc
     ELSE /\ keychain' = [keychain EXCEPT ![proc[p].profile] = proc[p].token]
          /\ Goto(p, IF proc[p].profile = Default THEN "sweepFile"
                                                ELSE "read")
  /\ Saved(p) /\ Touch(p)
  /\ UNCHANGED <<darwin, files, configs, started, faults, registered, raced,
                 refused, halfWritten>>

SaveKey(p) ==
  /\ At(p, "save") /\ darwin
  /\ keychain' = [keychain EXCEPT ![proc[p].profile] = proc[p].token]
  /\ Goto(p, IF proc[p].profile = Default THEN "sweepKey" ELSE "read")
  /\ Saved(p) /\ Touch(p)
  /\ UNCHANGED <<darwin, files, configs, started, faults, registered, raced,
                 refused, halfWritten>>

(* The keychain refuses the token, or there is none: the file it is.       *)
SaveToFile(p) ==
  /\ At(p, "save")
  /\ IF darwin THEN Fail /\ refused' = TRUE ELSE UNCHANGED <<faults, refused>>
  /\ files' = [files EXCEPT ![proc[p].profile] = Empty]
  /\ Become(p, [proc[p] EXCEPT !.pc = "write", !.linked = TRUE])
  /\ Touch(p)
  /\ UNCHANGED <<darwin, keychain, configs, started, latest, registered,
                 raced, halfWritten>>

(* The second half of os.WriteFile; the file may be unlinked by now.       *)
WriteToken(p) ==
  /\ At(p, "write")
  /\ files' = IF proc[p].linked
              THEN [files EXCEPT ![proc[p].profile] = proc[p].token]
              ELSE files
  /\ Goto(p, IF proc[p].profile = Default THEN "sweepFile"
                                                ELSE "read")
  /\ IF proc[p].linked THEN Saved(p) ELSE UNCHANGED latest
  /\ UNCHANGED <<darwin, keychain, configs, started, faults, registered,
                 touched, raced, refused, halfWritten>>

(* An import ends with the error of its write; an adoption ignores it and  *)
(* registers the profile all the same.                                     *)
WriteFails(p) ==
  /\ At(p, "write") /\ Fail
  /\ halfWritten' = TRUE
  /\ IF proc[p].cmd = "import" THEN Finish(p) ELSE Goto(p, "read")
  /\ UNCHANGED <<darwin, store, configs, started, latest, registered,
                 touched, raced, refused>>

(* The best-effort sweep of the legacy entries.                            *)
SweepKey(p) ==
  /\ At(p, "sweepKey")
  /\ Goto(p, "sweepFile")
  /\ \/ keychain' = [keychain EXCEPT ![Legacy] = None]
        /\ UNCHANGED <<faults, refused>>
     \/ Fail /\ refused' = TRUE /\ UNCHANGED keychain
  /\ UNCHANGED <<darwin, files, configs, started, latest, registered,
                 touched, raced, halfWritten>>

SweepFile(p) ==
  /\ At(p, "sweepFile")
  /\ files' = [files EXCEPT ![Legacy] = None]
  /\ Goto(p, "read")
  /\ UNCHANGED <<darwin, keychain, configs, started, faults, history>>

-----------------------------------------------------------------------------
(* TokenStore.Load: the keychain, the file, and for the default profile    *)
(* the two legacy places, whose token it adopts.                           *)

(* The token was found: a list goes on to ask who it is, any other command *)
(* does its work with it; a legacy one is saved first.                     *)
Found(p, t) ==
  IF proc[p].slot = Legacy
  THEN Become(p, [proc[p] EXCEPT !.pc = "save", !.token = t])
  ELSE Become(p, [proc[p] EXCEPT !.token = t,
                    !.pc = IF proc[p].cmd = "list" THEN "whoami"
                                                   ELSE "use"])

LoadKey(p) ==
  /\ At(p, "loadKey")
  /\ \/ /\ darwin /\ keychain[proc[p].slot] # None
        /\ Found(p, keychain[proc[p].slot])
        /\ UNCHANGED <<faults, refused>>
     \/ /\ ~darwin \/ keychain[proc[p].slot] = None
        /\ Goto(p, "loadFile")
        /\ UNCHANGED <<faults, refused>>
     \/ /\ darwin /\ Fail /\ refused' = TRUE
        /\ Goto(p, "loadFile")
  /\ UNCHANGED <<darwin, store, configs, started, latest, registered,
                 touched, raced, halfWritten>>

\* Bug variant: any profile without a token adopts the legacy one.
LoadFileAnyProfile(p) ==
  LET s == proc[p].slot IN
  /\ At(p, "loadFile")
  /\ IF files[s] # None THEN Found(p, files[s])
     ELSE IF s # Legacy
     THEN Become(p, [proc[p] EXCEPT !.pc = "loadKey", !.slot = Legacy])
     ELSE Finish(p)
  /\ UNCHANGED <<darwin, store, configs, started, faults, history>>

LoadFile(p) ==
  LET s == proc[p].slot IN
  /\ At(p, "loadFile")
  /\ IF files[s] # None THEN Found(p, files[s])
     ELSE IF s = Default
     THEN Become(p, [proc[p] EXCEPT !.pc = "loadKey", !.slot = Legacy])
     ELSE Finish(p)
  /\ UNCHANGED <<darwin, store, configs, started, faults, history>>

(* The command sends its requests with the token it loaded.                *)
UseToken(p) ==
  /\ At(p, "use")
  /\ Finish(p)
  /\ UNCHANGED <<darwin, store, configs, started, faults, history>>

-----------------------------------------------------------------------------
(* TokenStore.Delete, whose failures nobody looks at.                      *)

DeleteKey(p) ==
  /\ At(p, "deleteKey")
  /\ Goto(p, "deleteFile")
  /\ \/ /\ ~darwin
        /\ UNCHANGED <<keychain, faults, refused>>
     \/ /\ darwin
        /\ keychain' = [keychain EXCEPT ![proc[p].profile] = None]
        /\ UNCHANGED <<faults, refused>>
     \/ /\ darwin /\ Fail /\ refused' = TRUE
        /\ UNCHANGED keychain
  /\ latest' = [latest EXCEPT ![proc[p].profile] =
                  IF darwin THEN None ELSE @]
  /\ touched' = (touched \/ proc[p].profile = Default)
  /\ UNCHANGED <<darwin, files, configs, started, registered, raced,
                 halfWritten>>

(* Whoever is writing the file has it open and writes what nobody reads.   *)
DeleteFile(p) ==
  LET q == proc[p].profile IN
  /\ At(p, "deleteFile")
  /\ files' = [files EXCEPT ![q] = None]
  /\ latest' = [latest EXCEPT ![q] = IF darwin THEN @ ELSE None]
  /\ proc' = [o \in Proc |->
                IF o = p THEN [proc[p] EXCEPT !.pc = "read"]
                ELSE IF proc[o].profile = q /\ At(o, "write")
                THEN [proc[o] EXCEPT !.linked = FALSE]
                ELSE proc[o]]
  /\ UNCHANGED <<darwin, keychain, configs, started, faults, registered,
                 touched, raced, refused, halfWritten>>

-----------------------------------------------------------------------------
(* The registry: LoadGlobalConfig, a change, SaveGlobalConfig.             *)

Updating(p) == proc[p].pc \in {"open", "put", "rename"}

(* After an adoption the command still has its own work to do.             *)
AfterRegistry(p) ==
  IF proc[p].cmd = "call"
  THEN Become(p, [proc[p] EXCEPT !.pc = "use", !.slot = Default])
  ELSE IF proc[p].cmd = "list" /\ proc[p].slot = Legacy
  THEN Become(p, [proc[p] EXCEPT !.pc = "whoami", !.slot = Default])
  ELSE Finish(p)

(* What needs no update: a use of an unknown profile is refused, a stub is *)
(* written only for a profile that has no record.                          *)
NothingToDo(p) ==
  \/ proc[p].cmd = "use" /\ proc[p].profile \notin Stored.profiles
  \/ /\ proc[p].cmd = "call" \/ proc[p].slot = Legacy
     /\ proc[p].profile \in Stored.profiles

ReadConfig(p) ==
  /\ At(p, "read")
  /\ IF ~Readable THEN AfterRegistry(p) /\ UNCHANGED raced
     ELSE IF proc[p].cmd = "list" /\ proc[p].token = None
     THEN /\ UNCHANGED raced
          /\ IF proc[p].profile \in Stored.profiles THEN Finish(p)
             ELSE Goto(p, "loadKey")
     ELSE IF NothingToDo(p) THEN AfterRegistry(p) /\ UNCHANGED raced
     ELSE /\ Become(p, [proc[p] EXCEPT !.pc = "open",
                                       !.cfg = Updated(proc[p], Stored)])
          /\ raced' = (raced \/ \E o \in Proc \ {p} : Updating(o))
  /\ UNCHANGED <<darwin, store, configs, started, faults, latest,
                 registered, touched, refused, halfWritten>>

FreshInode ==
  CHOOSE i \in Inode : /\ i \notin {configFile, tmpFile}
                       /\ \A p \in Proc : proc[p].fd # i
\* Bug variant: config.json is written in place.
OpenTmpInPlace(p) ==
  LET i == IF configFile # None THEN configFile
           ELSE IF tmpFile # None THEN tmpFile ELSE FreshInode
  IN /\ At(p, "open")
     /\ content' = [content EXCEPT ![i] = Truncated]
     /\ tmpFile' = i
     /\ Become(p, [proc[p] EXCEPT !.pc = "put", !.fd = i])
     /\ UNCHANGED <<darwin, store, configFile, started, faults, history>>

(* os.WriteFile opens config.json.tmp, creates or truncates it, ...        *)
OpenTmp(p) ==
  LET i == IF tmpFile = None THEN FreshInode ELSE tmpFile IN
  /\ At(p, "open")
  /\ content' = [content EXCEPT ![i] = Truncated]
  /\ tmpFile' = i
  /\ Become(p, [proc[p] EXCEPT !.pc = "put", !.fd = i])
  /\ UNCHANGED <<darwin, store, configFile, started, faults, history>>

(* ... writes from its start, over what a second process has put there,    *)
PutConfig(p) ==
  LET i == proc[p].fd IN
  /\ At(p, "put")
  /\ content' = [content EXCEPT ![i] = Over(content[i], proc[p].cfg)]
  /\ Become(p, [proc[p] EXCEPT !.pc = "rename", !.fd = None])
  /\ UNCHANGED <<darwin, store, configFile, tmpFile, started, faults,
                 history>>

(* ... and os.Rename moves whatever bears the name by then, or fails.      *)
Rename(p) ==
  LET q == proc[p].profile IN
  /\ At(p, "rename")
  /\ IF tmpFile = None
     THEN UNCHANGED <<configFile, tmpFile, registered>>
     ELSE /\ configFile' = tmpFile
          /\ tmpFile' = None
          /\ registered' = CASE proc[p].cmd = "use"    -> registered
                             [] proc[p].cmd = "remove" -> registered \ {q}
                             [] OTHER -> registered \cup {q}
  /\ AfterRegistry(p)
  /\ UNCHANGED <<darwin, store, content, started, faults, latest, touched,
                 raced, refused, halfWritten>>

-----------------------------------------------------------------------------
(* The user interrupts a command, or the machine goes down.                *)
Crash(p) ==
  /\ ~At(p, "idle") /\ Fail
  /\ halfWritten' = (halfWritten \/ At(p, "write"))
  /\ Finish(p)
  /\ UNCHANGED <<darwin, store, configs, started, latest, registered,
                 touched, raced, refused>>

Next ==
  \E p \in Proc :
    \/ Start(p) \/ WhoAmI(p)
    \/ SaveKey(p) \/ SaveToFile(p) \/ WriteToken(p) \/ WriteFails(p)
    \/ SweepKey(p) \/ SweepFile(p)
    \/ LoadKey(p) \/ LoadFile(p) \/ UseToken(p)
    \/ DeleteKey(p) \/ DeleteFile(p)
    \/ ReadConfig(p) \/ OpenTmp(p) \/ PutConfig(p) \/ Rename(p)
    \/ Crash(p)

Spec == Init /\ [][Next]_vars

=============================================================================
