--------------------------- MODULE ProfilesProofs ---------------------------
(***************************************************************************)
(* Theorems about the token store and the registry, for every number of    *)
(* processes, profiles, tokens, commands and failures.                     *)
(***************************************************************************)
EXTENDS ProfilesSafety, FiniteSetTheorems, TLAPS

USE ProfilesAssumption

(* Where a process is in its command, and what it has at hand.             *)
Step ==
  {"idle", "whoami", "save", "write", "sweepKey", "sweepFile", "loadKey",
   "loadFile", "use", "deleteKey", "deleteFile", "read", "open", "put",
   "rename"}
Process ==
  [pc : Step, cmd : Command, profile : Profile, slot : Slot,
   token : AnyToken \cup {None, Empty}, cfg : Config,
   fd : Inode \cup {None}, linked : BOOLEAN]

Registering == {"sweepKey", "sweepFile", "read", "open", "put", "rename"}

(* Its slot is its profile or, once it looked for the default one, the     *)
(* legacy slot; the token of an import is the one given, the token of an   *)
(* adoption the legacy one; only an import and a list ask who it is; a     *)
(* call gets to the registry only by adopting; the legacy slots are swept  *)
(* after the default one was saved; whoever looks for a token has none;    *)
(* and only a process that writes config.json.tmp has it open.             *)
Placed(r) ==
  /\ r.slot \in {r.profile, Legacy} /\ (r.slot = Legacy => r.profile = Default)
  /\ r.pc \in {"whoami", "save", "write"} /\ r.cmd = "import" =>
       r.token \in Token
  /\ r.pc \in {"save", "write"} /\ r.cmd # "import" =>
       r.profile = Default /\ r.token = LegacyToken
  /\ r.pc \in {"sweepKey", "sweepFile"} => r.profile = Default
  /\ r.pc \in Registering /\ r.cmd = "call" => r.profile = Default
  /\ r.pc \in {"loadKey", "loadFile"} => r.token = None /\ r.cmd # "import"
  /\ r.pc = "whoami" => r.cmd \in {"import", "list"}
  /\ r.pc \in {"deleteKey", "deleteFile"} => r.cmd = "remove"
  /\ r.fd # None => r.pc = "put"

AllPlaced ==
  /\ DOMAIN proc = Proc
  /\ \A p \in Proc : proc[p] \in Process /\ Placed(proc[p])

(* config.json.tmp is a file of its own.                                   *)
PathsApart == tmpFile # None => tmpFile # configFile

(* What does not change hands: a machine without a keychain has none, and  *)
(* nothing is ever saved in the legacy slot.                               *)
LegacySlot ==
  /\ ~darwin => \A s \in Slot : keychain[s] = None
  /\ keychain[Legacy] \in {None, LegacyToken}
  /\ files[Legacy] \in {None, LegacyToken}

TypeInv ==
  /\ TypeOK /\ darwin \in BOOLEAN
  /\ latest \in [Profile -> Token \cup {None}] /\ registered \subseteq Profile
  /\ AllPlaced /\ PathsApart /\ LegacySlot

---------------------------------------------------------------------------
(* The registry                                                            *)

(* No two processes are between the read and the rename.                   *)
Alone ==
  \A p, o \in Proc : Updating(p) /\ Updating(o) => p = o

(* What a process is about to write is its change of what is stored now.   *)
Current ==
  \A p \in Proc : Updating(p) =>
    /\ proc[p].cfg = Updated(proc[p], Stored)
    /\ proc[p].cmd = "use" => proc[p].profile \in Stored.profiles

(* config.json.tmp is the file it writes, and holds what it wrote.         *)
Writes ==
  \A p \in Proc :
    /\ At(p, "put") => /\ proc[p].fd = tmpFile /\ tmpFile # None
                       /\ content[tmpFile] = Truncated
    /\ At(p, "rename") => /\ tmpFile # None
                          /\ content[tmpFile] = Whole(proc[p].cfg)

Consistent ==
  /\ Readable
  /\ Stored.profiles = registered
  /\ Stored.active \in registered \cup {None}

RegistryInv == raced \/ (Alone /\ Current /\ Writes /\ Consistent)

---------------------------------------------------------------------------
(* The legacy token                                                        *)

(* The default slot has the legacy token, or is being given it.            *)
Adopted ==
  \/ LegacyToken \in {keychain[Default], files[Default]}
  \/ \E p \in Proc : At(p, "write") /\ proc[p].profile = Default

LegacyInv ==
  \/ touched \/ halfWritten
  \/ /\ Adopted \/ LegacyToken \in {keychain[Legacy], files[Legacy]}
     /\ \A p \in Proc : proc[p].profile = Default =>
          /\ proc[p].pc \in {"sweepKey", "sweepFile"} => Adopted
          /\ At(p, "write") => proc[p].linked /\ proc[p].token = LegacyToken
          /\ ~At(p, "deleteFile")

---------------------------------------------------------------------------
(* What is loaded                                                          *)

(* What a store may hold for a profile.                                    *)
Good(q, t) ==
  \/ t \in {None, latest[q]}
  \/ q = Default /\ t = LegacyToken

BeingWritten(q) ==
  \E o \in Proc : At(o, "write") /\ proc[o].linked /\ proc[o].profile = q

LoadInv ==
  \/ refused
  \/ /\ \A q \in Profile :
          /\ Good(q, keychain[q])
          /\ files[q] = Empty \/ Good(q, files[q])
          /\ files[q] = Empty => halfWritten \/ BeingWritten(q)
          /\ darwin => files[q] = None
     /\ darwin => \A p \in Proc : ~At(p, "write")

---------------------------------------------------------------------------
(* Types                                                                   *)

(* There is an unused inode whenever config.json.tmp does not exist: fewer *)
(* are open than there are processes.                                      *)
LEMMA FreshIsFree ==
  ASSUME TypeOK, tmpFile = None
  PROVE  FreshInode \in Inode /\ FreshInode # configFile
<1> DEFINE Free(i) == /\ i \notin {configFile, tmpFile}
                      /\ \A p \in Proc : proc[p].fd # i
           S == Inode \ {configFile}
<1>1. Cardinality(Proc) \in Nat
  BY FS_CardinalityType
<1>2. IsFiniteSet(Inode) /\ Cardinality(Inode) = Cardinality(Proc) + 2
  BY <1>1, FS_Interval DEF Inode
<1>3. IsFiniteSet(S) /\ Cardinality(S) > Cardinality(Proc)
  BY <1>1, <1>2, FS_RemoveElement
<1>4. \E i \in Inode : Free(i)
  <2> SUFFICES ASSUME \A i \in Inode : ~Free(i)
               PROVE  FALSE
    OBVIOUS
  <2>1. \A i \in S : \E p \in Proc : proc[p].fd = i
    BY <1>1 DEF Inode
  <2> DEFINE f == [i \in S |-> CHOOSE p \in Proc : proc[p].fd = i]
  <2>2. f \in [S -> Proc] /\ \A i \in S : proc[f[i]].fd = i
    BY <2>1
  <2> HIDE DEF f, S
  <2>3. \E i, j \in S : i # j /\ f[i] = f[j]
    BY <1>1, <1>3, <2>2, FS_PigeonHole
  <2> QED BY <2>2, <2>3
<1>5. FreshInode \in Inode /\ Free(FreshInode)
  BY <1>4 DEF FreshInode
<1> QED BY <1>5

(* One process moves.                                                      *)
LEMMA BecomeStep ==
  ASSUME AllPlaced, NEW p \in Proc, NEW r \in Process, Placed(r), Become(p, r)
  PROVE  AllPlaced'
BY DEF AllPlaced, Become

(* It only gets further.                                                   *)
LEMMA GotoStep ==
  ASSUME AllPlaced, NEW p \in Proc, NEW l \in Step, Goto(p, l),
         Placed([proc[p] EXCEPT !.pc = l])
  PROVE  AllPlaced'
<1>1. [proc[p] EXCEPT !.pc = l] \in Process
  BY DEF AllPlaced, Process
<1>2. Become(p, [proc[p] EXCEPT !.pc = l])
  BY DEF Goto, Become
<1> QED BY <1>1, <1>2, BecomeStep

(* It goes on to a step that asks nothing of what it has at hand.          *)
LEMMA PlainStep ==
  ASSUME AllPlaced, NEW p \in Proc, ~At(p, "put"), NEW l \in Step, Goto(p, l),
         l \notin {"whoami", "save", "write", "loadKey", "loadFile",
                    "deleteKey"},
         l = "deleteFile" => proc[p].cmd = "remove",
         l \in {"sweepKey", "sweepFile"} => proc[p].profile = Default,
         \/ proc[p].pc \in Registering
         \/ proc[p].cmd # "call"
         \/ proc[p].profile = Default
  PROVE  AllPlaced'
<1>1. proc[p] \in Process /\ Placed(proc[p])
  BY DEF AllPlaced
<1> DEFINE r == [proc[p] EXCEPT !.pc = l]
<1>2. /\ r.pc = l /\ r.cmd = proc[p].cmd /\ r.profile = proc[p].profile
      /\ r.slot = proc[p].slot /\ r.fd = proc[p].fd
  BY <1>1 DEF Process
<1>3. Placed(r)
  <2> HIDE DEF r
  <2> QED BY <1>1, <1>2 DEF Placed, At
<1> QED BY <1>3, GotoStep

(* A process that has ended, or not yet begun.                             *)
LEMMA IdlePlaced == Idle \in Process /\ Placed(Idle)
<1>1. Idle \in Process
  <2>1. /\ "idle" \in Step /\ "call" \in Command
        /\ Default \in Profile /\ Default \in Slot
        /\ None \in AnyToken \cup {None, Empty}
        /\ NoConfig \in Config /\ None \in Inode \cup {None}
    BY DEF Step, Command, Slot, Config, NoConfig
  <2>2. TRUE \in BOOLEAN
    OBVIOUS
  <2> QED BY <2>1, <2>2, Zenon DEF Idle, Process
<1>2. Placed(Idle)
  BY DEF Idle, Placed, Registering
<1> QED BY <1>1, <1>2

(* A command ends.                                                         *)
LEMMA FinishStep ==
  ASSUME AllPlaced, NEW p \in Proc, Finish(p)
  PROVE  AllPlaced'
BY IdlePlaced, BecomeStep DEF Finish

(* The configuration in config.json, and a change to it.                   *)
LEMMA ConfigTypes ==
  ASSUME TypeOK
  PROVE  /\ Whole(NoConfig) \in Text /\ Truncated \in Text
         /\ File \in Text /\ Stored \in Config
         /\ \A r \in Process : \A c \in Config : Updated(r, c) \in Config
         /\ \A o \in Text : \A c \in Config : Over(o, c) \in Text
<1>1. NoConfig \in Config
  BY DEF NoConfig, Config
<1>2. \A c \in Config : Whole(c) \in Text
  BY DEF Whole, Text
<1>3. Truncated \in Text
  BY <1>1 DEF Truncated, Text
<1>4. File \in Text
  BY <1>1, <1>2 DEF File, TypeOK
<1>5. Stored \in Config
  BY <1>4 DEF Stored, Text
<1>6. ASSUME NEW r \in Process, NEW c \in Config
      PROVE  Updated(r, c) \in Config
  <2>1. /\ r.profile \in Profile /\ c.active \in Profile \cup {None}
        /\ c.profiles \in SUBSET Profile
    BY DEF Process, Config
  <2>2. CASE r.cmd = "use"
    BY <2>1, <2>2 DEF Updated, Config
  <2>3. CASE r.cmd = "remove"
    BY <2>1, <2>3 DEF Updated, Config
  <2>4. CASE r.cmd \notin {"use", "remove"}
    BY <2>1, <2>4 DEF Updated, Config
  <2> QED BY <2>2, <2>3, <2>4
<1>7. ASSUME NEW o \in Text, NEW c \in Config
      PROVE  Over(o, c) \in Text
  <2>1. [o EXCEPT !.form = "overwritten"] \in Text
    BY DEF Text
  <2> QED BY <1>2, <2>1 DEF Over
<1> QED BY <1>1, <1>2, <1>3, <1>4, <1>5, <1>6, <1>7

(* A command goes on after its update of the registry.                     *)
LEMMA AfterRegistryStep ==
  ASSUME AllPlaced, NEW p \in Proc, proc[p].pc \in {"read", "rename"},
         AfterRegistry(p)
  PROVE  AllPlaced'
<1>1. proc[p] \in Process /\ Placed(proc[p])
  BY DEF AllPlaced
<1>2. ASSUME proc[p].cmd # "import", proc[p].profile = Default,
             NEW l \in {"use", "whoami"}, l = "whoami" => proc[p].cmd = "list",
             Become(p, [proc[p] EXCEPT !.pc = l, !.slot = Default])
      PROVE  AllPlaced'
  <2> DEFINE r == [proc[p] EXCEPT !.pc = l, !.slot = Default]
  <2>1. r \in Process
    BY <1>1 DEF Process, Slot, Step
  <2>2. /\ r.pc = l /\ r.cmd = proc[p].cmd /\ r.profile = proc[p].profile
        /\ r.slot = Default /\ r.fd = proc[p].fd
    BY <1>1 DEF Process
  <2>3. Placed(r)
    <3> HIDE DEF r
    <3> QED BY <1>1, <1>2, <2>2 DEF Placed, Registering
  <2> QED BY <1>2, <2>1, <2>3, BecomeStep
<1>3. CASE proc[p].cmd = "call"
  <2>1. proc[p].profile = Default
    BY <1>1, <1>3 DEF Placed, Registering
  <2> QED BY <1>2, <1>3, <2>1 DEF AfterRegistry
<1>4. CASE proc[p].cmd = "list" /\ proc[p].slot = Legacy
  <2>1. proc[p].profile = Default
    BY <1>1, <1>4 DEF Placed
  <2> QED BY <1>2, <1>4, <2>1 DEF AfterRegistry
<1> QED BY <1>3, <1>4, FinishStep DEF AfterRegistry

(* A token was found.                                                      *)
LEMMA FoundStep ==
  ASSUME AllPlaced, NEW p \in Proc, proc[p].pc \in {"loadKey", "loadFile"},
         NEW t \in AnyToken \cup {Empty}, Found(p, t),
         proc[p].slot = Legacy => t = LegacyToken
  PROVE  AllPlaced'
<1>1. proc[p] \in Process /\ Placed(proc[p])
  BY DEF AllPlaced
<1>2. ASSUME NEW l \in {"save", "whoami", "use"},
             l = "save" => proc[p].slot = Legacy,
             l = "whoami" => proc[p].cmd = "list",
             Become(p, [proc[p] EXCEPT !.pc = l, !.token = t])
      PROVE  AllPlaced'
  <2> DEFINE r == [proc[p] EXCEPT !.pc = l, !.token = t]
  <2>1. r \in Process
    BY <1>1 DEF Process, Step
  <2>2. /\ r.pc = l /\ r.cmd = proc[p].cmd /\ r.profile = proc[p].profile
        /\ r.slot = proc[p].slot /\ r.fd = proc[p].fd /\ r.token = t
    BY <1>1 DEF Process
  <2>3. Placed(r)
    <3> HIDE DEF r
    <3> QED BY <1>1, <1>2, <2>2 DEF Placed, Registering
  <2> QED BY <1>2, <2>1, <2>3, BecomeStep
<1>3. \E l \in {"save", "whoami", "use"} :
        /\ l = "save" => proc[p].slot = Legacy
        /\ l = "whoami" => proc[p].cmd = "list"
        /\ Become(p, [proc[p] EXCEPT !.pc = l, !.token = t])
  <2>1. CASE proc[p].slot = Legacy
    BY <2>1 DEF Found, Become
  <2>2. CASE proc[p].slot # Legacy /\ proc[p].cmd = "list"
    BY <2>2 DEF Found, Become
  <2>3. CASE proc[p].slot # Legacy /\ proc[p].cmd # "list"
    BY <2>3 DEF Found, Become
  <2> QED BY <2>1, <2>2, <2>3
<1> QED BY <1>2, <1>3

(* A command begins with its profile as its slot and, if it imports, with  *)
(* the user's token.                                                       *)
LEMMA StartPlaced ==
  ASSUME TypeInv, NEW p \in Proc, Start(p)
  PROVE  AllPlaced'
<1>1. PICK cmd \in Command, flag \in Profile \cup {None}, t \in Token :
        LET q == EffectiveProfile(flag)
        IN Become(p, [Idle EXCEPT !.pc = FirstStep(cmd), !.cmd = cmd,
                                  !.profile = q, !.slot = q,
                                  !.token = IF cmd = "import" THEN t
                                                              ELSE None])
  BY DEF Start
<1> DEFINE q == EffectiveProfile(flag)
           v == IF cmd = "import" THEN t ELSE None
           r == [Idle EXCEPT !.pc = FirstStep(cmd), !.cmd = cmd, !.profile = q,
                             !.slot = q, !.token = v]
<1>2. q \in Profile /\ q \in Slot /\ v \in AnyToken \cup {None, Empty}
  BY ConfigTypes DEF EffectiveProfile, TypeInv, Config, Slot, AnyToken
<1>3. FirstStep(cmd) \in Step
  BY DEF FirstStep, Step
<1>4. Idle \in Process /\ Idle.fd = None
  BY IdlePlaced DEF Idle
<1>5. r \in Process
  <2> HIDE DEF q, v
  <2> QED BY <1>2, <1>3, <1>4 DEF Process
<1>6. /\ r.pc = FirstStep(cmd) /\ r.cmd = cmd /\ r.profile = q
      /\ r.slot = q /\ r.token = v /\ r.fd = None
  <2> HIDE DEF q, v
  <2> QED BY <1>4 DEF Process
<1>7. Placed(r)
  <2> HIDE DEF q, r
  <2> QED BY <1>2, <1>6 DEF Placed, FirstStep, Registering, Command
<1> HIDE DEF r
<1>8. Become(p, r)
  BY <1>1 DEF r
<1> QED BY <1>5, <1>7, <1>8, BecomeStep DEF TypeInv

(* Unlinking a file moves nobody who is writing it.                        *)
LEMMA DeletedPlaced ==
  ASSUME TypeInv, NEW p \in Proc, DeleteFile(p)
  PROVE  AllPlaced'
<1> DEFINE x == [proc[p] EXCEPT !.pc = "read"]
           y(o) == [proc[o] EXCEPT !.linked = FALSE]
<1>1. \A o \in Proc : proc[o] \in Process /\ Placed(proc[o])
  BY DEF TypeInv, AllPlaced
<1>2. x \in Process /\ Placed(x)
  <2>1. x \in Process
    BY <1>1 DEF Process, Step
  <2>2. /\ x.pc = "read" /\ x.cmd = proc[p].cmd /\ x.profile = proc[p].profile
        /\ x.slot = proc[p].slot /\ x.fd = proc[p].fd
    BY <1>1 DEF Process
  <2>3. proc[p].cmd = "remove"
    BY <1>1 DEF DeleteFile, At, Placed
  <2> HIDE DEF x
  <2> QED BY <1>1, <2>1, <2>2, <2>3 DEF Placed, DeleteFile, At
<1>3. ASSUME NEW o \in Proc
      PROVE  y(o) \in Process /\ Placed(y(o))
  <2>1. y(o) \in Process
    BY <1>1, Zenon DEF Process
  <2>2. /\ y(o).pc = proc[o].pc /\ y(o).cmd = proc[o].cmd
        /\ y(o).profile = proc[o].profile /\ y(o).slot = proc[o].slot
        /\ y(o).fd = proc[o].fd /\ y(o).token = proc[o].token
    BY <1>1 DEF Process
  <2> HIDE DEF y
  <2> QED BY <1>1, <2>1, <2>2 DEF Placed
<1>4. /\ DOMAIN proc' = Proc
      /\ \A o \in Proc : proc'[o] \in {x, y(o), proc[o]}
  BY DEF DeleteFile
<1> HIDE DEF x, y
<1> QED BY <1>1, <1>2, <1>3, <1>4 DEF AllPlaced

(* Every process stays where its command can be.                           *)
LEMMA PlacedStep ==
  ASSUME TypeInv, [Next]_vars
  PROVE  AllPlaced'
<1>1. AllPlaced /\ \A p \in Proc : proc[p] \in Process /\ Placed(proc[p])
  BY DEF TypeInv, AllPlaced
<1>2. \A p \in Proc : At(p, "put") <=> proc[p].pc = "put"
  BY DEF At
<1>3. CASE UNCHANGED vars
  BY <1>1, <1>3 DEF vars, AllPlaced
<1>4. ASSUME NEW p \in Proc, WhoAmI(p)
      PROVE  AllPlaced'
  <2>0. proc[p].pc = "whoami"
    BY <1>4 DEF WhoAmI, At
  <2>1. CASE Finish(p)
    BY <1>1, <2>1, FinishStep
  <2>2. CASE Goto(p, "read") /\ proc[p].cmd # "import"
    <3>1. \/ proc[p].cmd # "call" \/ proc[p].profile = Default
      BY <1>1, <2>0, <2>2 DEF Placed
    <3> QED BY <1>1, <2>0, <2>2, <3>1, PlainStep DEF At, Step
  <2>3. CASE Goto(p, "save") /\ proc[p].cmd = "import"
    <3> DEFINE r == [proc[p] EXCEPT !.pc = "save"]
    <3>1. /\ r.pc = "save" /\ r.cmd = "import" /\ r.slot = proc[p].slot
          /\ r.profile = proc[p].profile /\ r.fd = proc[p].fd
          /\ r.token = proc[p].token
      BY <1>1, <2>3 DEF Process
    <3>2. Placed(r)
      <4> HIDE DEF r
      <4> QED BY <1>1, <2>0, <2>3, <3>1 DEF Placed, Registering
    <3> QED BY <1>1, <2>3, <3>2, GotoStep DEF Step
  <2> QED BY <1>4, <2>1, <2>2, <2>3 DEF WhoAmI
<1>5. ASSUME NEW p \in Proc,
             \/ SaveKey(p) \/ WriteToken(p) \/ WriteFails(p) \/ SweepKey(p)
             \/ SweepFile(p) \/ DeleteKey(p)
      PROVE  AllPlaced'
  <2>1. /\ \/ Finish(p)
           \/ /\ \E l \in {"sweepKey", "sweepFile"} : Goto(p, l)
              /\ proc[p].profile = Default
           \/ Goto(p, "read")
           \/ Goto(p, "deleteFile") /\ proc[p].pc = "deleteKey"
        /\ proc[p].pc \in {"save", "write", "sweepKey", "sweepFile",
                           "deleteKey"}
    BY <1>1, <1>5
       DEF SaveKey, WriteToken, WriteFails, SweepKey, SweepFile, DeleteKey,
           At, Placed
  <2>2. /\ \/ proc[p].pc \in Registering
           \/ proc[p].cmd # "call"
           \/ proc[p].profile = Default
        /\ proc[p].pc = "deleteKey" => proc[p].cmd = "remove"
    BY <1>1, <2>1 DEF Placed, Registering
  <2>3. CASE Finish(p)
    BY <1>1, <2>3, FinishStep
  <2>4. ASSUME NEW l \in {"sweepKey", "sweepFile", "read", "deleteFile"},
               Goto(p, l), l = "deleteFile" => proc[p].cmd = "remove",
               l \in {"sweepKey", "sweepFile"} => proc[p].profile = Default
        PROVE  AllPlaced'
    <3>1. ~At(p, "put") /\ l \in Step
      BY <2>1 DEF At, Step
    <3> QED BY <1>1, <2>2, <2>4, <3>1, PlainStep
  <2> QED BY <2>1, <2>2, <2>3, <2>4
<1>6. ASSUME NEW p \in Proc, SaveToFile(p)
      PROVE  AllPlaced'
  <2> DEFINE r == [proc[p] EXCEPT !.pc = "write", !.linked = TRUE]
  <2>1. r \in Process
    <3>1. proc[p] \in Process /\ "write" \in Step /\ TRUE \in BOOLEAN
      BY <1>1 DEF Step
    <3> QED BY <3>1, ZenonT(30) DEF Process
  <2>2. /\ r.pc = "write" /\ r.cmd = proc[p].cmd /\ r.slot = proc[p].slot
        /\ r.profile = proc[p].profile /\ r.fd = proc[p].fd
        /\ r.token = proc[p].token
    BY <1>1 DEF Process
  <2>3. Placed(r)
    <3> HIDE DEF r
    <3> QED BY <1>1, <1>6, <2>2 DEF SaveToFile, At, Placed, Registering
  <2> QED BY <1>1, <1>6, <2>1, <2>3, BecomeStep DEF SaveToFile
<1>7. ASSUME NEW p \in Proc, LoadKey(p)
      PROVE  AllPlaced'
  <2>1. CASE Goto(p, "loadFile")
    <3> DEFINE r == [proc[p] EXCEPT !.pc = "loadFile"]
    <3>1. /\ r.pc = "loadFile" /\ r.cmd = proc[p].cmd /\ r.slot = proc[p].slot
          /\ r.profile = proc[p].profile /\ r.fd = proc[p].fd
          /\ r.token = proc[p].token
      BY <1>1 DEF Process
    <3>2. Placed(r)
      <4> HIDE DEF r
      <4> QED BY <1>1, <1>7, <3>1 DEF LoadKey, At, Placed, Registering
    <3> QED BY <1>1, <2>1, <3>2, GotoStep DEF Step
  <2>2. CASE /\ keychain[proc[p].slot] # None
             /\ Found(p, keychain[proc[p].slot])
    <3>1. keychain[proc[p].slot] \in AnyToken
      BY <1>1, <2>2 DEF TypeInv, TypeOK, Process
    <3> QED
      BY <1>1, <1>7, <2>2, <3>1, FoundStep DEF LoadKey, At, TypeInv, LegacySlot
  <2> QED BY <1>7, <2>1, <2>2 DEF LoadKey
<1>8. ASSUME NEW p \in Proc, LoadFile(p)
      PROVE  AllPlaced'
  <2> DEFINE s == proc[p].slot
  <2>1. CASE files[s] # None
    <3>1. files[s] \in AnyToken \cup {Empty}
      BY <1>1, <2>1 DEF TypeInv, TypeOK, Process
    <3> QED
      BY <1>1, <1>8, <2>1, <3>1, FoundStep
         DEF LoadFile, At, TypeInv, LegacySlot
  <2>2. CASE files[s] = None /\ s = Default
    <3> DEFINE r == [proc[p] EXCEPT !.pc = "loadKey", !.slot = Legacy]
    <3>1. r \in Process
      BY <1>1 DEF Process, Step, Slot
    <3>2. /\ r.pc = "loadKey" /\ r.cmd = proc[p].cmd /\ r.slot = Legacy
          /\ r.profile = proc[p].profile /\ r.fd = proc[p].fd
          /\ r.token = proc[p].token
      BY <1>1 DEF Process
    <3>3. Placed(r)
      <4> HIDE DEF r
      <4> QED BY <1>1, <1>8, <2>2, <3>2 DEF LoadFile, At, Placed, Registering
    <3>4. Become(p, r)
      BY <1>8, <2>2 DEF LoadFile
    <3> QED BY <1>1, <3>1, <3>3, <3>4, BecomeStep
  <2>3. CASE Finish(p)
    BY <1>1, <2>3, FinishStep
  <2> QED BY <1>8, <2>1, <2>2, <2>3 DEF LoadFile
<1>9. ASSUME NEW p \in Proc, ReadConfig(p)
      PROVE  AllPlaced'
  <2>1. /\ proc[p].pc = "read"
        /\ proc[p].cmd = "call" => proc[p].profile = Default
    BY <1>1, <1>9 DEF ReadConfig, At, Placed, Registering
  <2>2. CASE AfterRegistry(p) \/ Finish(p)
    BY <1>1, <2>1, <2>2, AfterRegistryStep, FinishStep
  <2>3. CASE Goto(p, "loadKey") /\ proc[p].cmd = "list" /\ proc[p].token = None
    <3> DEFINE r == [proc[p] EXCEPT !.pc = "loadKey"]
    <3>1. /\ r.pc = "loadKey" /\ r.cmd = "list" /\ r.slot = proc[p].slot
          /\ r.profile = proc[p].profile /\ r.fd = proc[p].fd
          /\ r.token = None
      BY <1>1, <2>3 DEF Process
    <3>2. Placed(r)
      <4> HIDE DEF r
      <4> QED BY <1>1, <2>1, <3>1 DEF Placed, Registering
    <3> QED BY <1>1, <2>3, <3>2, GotoStep DEF Step
  <2>4. CASE Become(p, [proc[p] EXCEPT !.pc = "open",
                                       !.cfg = Updated(proc[p], Stored)])
    <3> DEFINE u == Updated(proc[p], Stored)
               r == [proc[p] EXCEPT !.pc = "open", !.cfg = u]
    <3>1. u \in Config
      BY <1>1, ConfigTypes DEF TypeInv
    <3>2. r \in Process
      <4> HIDE DEF u
      <4> QED BY <1>1, <3>1 DEF Process, Step
    <3>3. /\ r.pc = "open" /\ r.cmd = proc[p].cmd /\ r.slot = proc[p].slot
          /\ r.profile = proc[p].profile /\ r.fd = proc[p].fd
      <4> HIDE DEF u
      <4> QED BY <1>1 DEF Process
    <3>4. Placed(r)
      <4> HIDE DEF r
      <4> QED BY <1>1, <2>1, <3>3 DEF Placed, Registering
    <3> QED BY <1>1, <2>4, <3>2, <3>4, BecomeStep
  <2> QED BY <1>9, <2>2, <2>3, <2>4 DEF ReadConfig
<1>10. ASSUME NEW p \in Proc, OpenTmp(p)
       PROVE  AllPlaced'
  <2> DEFINE i == IF tmpFile = None THEN FreshInode ELSE tmpFile
             r == [proc[p] EXCEPT !.pc = "put", !.fd = i]
  <2>1. i \in Inode
    BY FreshIsFree DEF TypeInv, TypeOK
  <2>2. r \in Process
    <3> HIDE DEF i
    <3> QED BY <1>1, <2>1 DEF Process, Step
  <2>3. /\ r.pc = "put" /\ r.cmd = proc[p].cmd /\ r.slot = proc[p].slot
        /\ r.profile = proc[p].profile
    <3> HIDE DEF i
    <3> QED BY <1>1 DEF Process
  <2>4. Placed(r)
    <3> HIDE DEF r
    <3> QED BY <1>1, <1>10, <2>3 DEF OpenTmp, At, Placed, Registering
  <2>5. Become(p, r)
    BY <1>10 DEF OpenTmp
  <2> QED BY <1>1, <2>2, <2>4, <2>5, BecomeStep
<1>11. ASSUME NEW p \in Proc, PutConfig(p)
       PROVE  AllPlaced'
  <2> DEFINE r == [proc[p] EXCEPT !.pc = "rename", !.fd = None]
  <2>1. r \in Process
    BY <1>1 DEF Process, Step
  <2>2. /\ r.pc = "rename" /\ r.cmd = proc[p].cmd /\ r.slot = proc[p].slot
        /\ r.profile = proc[p].profile /\ r.fd = None
    BY <1>1 DEF Process
  <2>3. Placed(r)
    <3> HIDE DEF r
    <3> QED BY <1>1, <1>11, <2>2 DEF PutConfig, At, Placed, Registering
  <2> QED BY <1>1, <1>11, <2>1, <2>3, BecomeStep DEF PutConfig
<1>12. ASSUME NEW p \in Proc, UseToken(p) \/ Crash(p)
       PROVE  AllPlaced'
  BY <1>1, <1>12, FinishStep DEF UseToken, Crash
<1>13. ASSUME NEW p \in Proc, Rename(p)
       PROVE  AllPlaced'
  BY <1>1, <1>13, AfterRegistryStep DEF Rename, At
<1> QED
  BY <1>3, <1>4, <1>5, <1>6, <1>7, <1>8, <1>9, <1>10, <1>11, <1>12, <1>13,
     StartPlaced, DeletedPlaced DEF Next

(* The steps that leave the stores alone, and those that leave the         *)
(* registry alone.                                                         *)
KeepsStores(p) ==
  \/ Start(p) \/ WhoAmI(p) \/ LoadKey(p) \/ LoadFile(p) \/ UseToken(p)
  \/ ReadConfig(p) \/ OpenTmp(p) \/ PutConfig(p) \/ Rename(p) \/ Crash(p)

WritesKey(p) == SaveKey(p) \/ SweepKey(p) \/ DeleteKey(p)

WritesFile(p) ==
  \/ SaveToFile(p) \/ WriteToken(p) \/ WriteFails(p) \/ SweepFile(p)
  \/ DeleteFile(p)

KeepsRegistry(p) ==
  \/ Start(p) \/ WhoAmI(p) \/ LoadKey(p) \/ LoadFile(p) \/ UseToken(p)
  \/ ReadConfig(p) \/ Crash(p) \/ WritesKey(p) \/ WritesFile(p)

(* What each group of steps leaves as it is.                               *)
LEMMA Frames ==
  /\ \A p \in Proc : KeepsStores(p) =>
       UNCHANGED <<darwin, keychain, files, latest, touched>>
  /\ \A p \in Proc : WritesKey(p) => UNCHANGED <<darwin, files, halfWritten>>
  /\ \A p \in Proc : WritesFile(p) => UNCHANGED <<darwin, keychain>>
  /\ \A p \in Proc : KeepsRegistry(p) =>
       UNCHANGED <<content, configFile, tmpFile, registered>>
<1> SUFFICES ASSUME NEW p \in Proc
             PROVE  /\ KeepsStores(p) =>
                         UNCHANGED <<darwin, keychain, files, latest, touched>>
                    /\ WritesKey(p) => UNCHANGED <<darwin, files, halfWritten>>
                    /\ WritesFile(p) => UNCHANGED <<darwin, keychain>>
                    /\ KeepsRegistry(p) =>
                         UNCHANGED <<content, configFile, tmpFile, registered>>
  OBVIOUS
<1> USE DEF store, configs, history
<1>1. KeepsStores(p) => UNCHANGED <<darwin, keychain, files, latest, touched>>
  BY DEF KeepsStores, Start, WhoAmI, LoadKey, LoadFile, UseToken, ReadConfig,
     OpenTmp, PutConfig, Rename, Crash
<1>2. WritesKey(p) => UNCHANGED <<darwin, files, halfWritten, content,
                                  configFile, tmpFile, registered>>
  BY DEF WritesKey, SaveKey, SweepKey, DeleteKey
<1>3. WritesFile(p) => UNCHANGED <<darwin, keychain, content, configFile,
                                   tmpFile, registered>>
  BY DEF WritesFile, SaveToFile, WriteToken, WriteFails, SweepFile, DeleteFile
<1>4. Start(p) \/ WhoAmI(p) \/ LoadKey(p) \/ LoadFile(p) \/ UseToken(p)
        \/ ReadConfig(p) \/ Crash(p)
        => UNCHANGED <<content, configFile, tmpFile, registered>>
  BY DEF Start, WhoAmI, LoadKey, LoadFile, UseToken, ReadConfig, Crash
<1> QED BY <1>1, <1>2, <1>3, <1>4 DEF KeepsRegistry

(* The type of the stores and of what is remembered of them.               *)
Stores ==
  /\ darwin \in BOOLEAN
  /\ keychain \in [Slot -> AnyToken \cup {None}]
  /\ files \in [Slot -> AnyToken \cup {None, Empty}]
  /\ latest \in [Profile -> Token \cup {None}]
  /\ LegacySlot

(* And of the registry.                                                    *)
Registry ==
  /\ content \in [Inode -> Text]
  /\ configFile \in Inode \cup {None} /\ tmpFile \in Inode \cup {None}
  /\ registered \subseteq Profile /\ PathsApart

(* Every step leaves tokens in the stores, and the legacy slot what it was *)
(* or empty.                                                               *)
LEMMA StoresStep ==
  ASSUME TypeInv, [Next]_vars
  PROVE  Stores'
<1>1. Stores /\ AllPlaced /\ \A p \in Proc : Placed(proc[p])
        /\ proc[p] \in Process
  BY DEF TypeInv, TypeOK, Stores, AllPlaced
<1>2. Profile \subseteq Slot /\ Legacy \in Slot /\ Legacy \notin Profile
  BY DEF Slot
<1> USE DEF Stores, LegacySlot
<1>3. CASE UNCHANGED vars
  BY <1>1, <1>3 DEF vars, store, history
<1>4. ASSUME NEW p \in Proc, SaveKey(p)
      PROVE  Stores'
  <2> DEFINE q == proc[p].profile
             t == proc[p].token
  <2>1. /\ q \in Profile /\ t \in AnyToken
        /\ proc[p].cmd = "import" => t \in Token
    BY <1>1, <1>4 DEF SaveKey, At, Placed, Process, AnyToken
  <2>2. /\ darwin /\ keychain' = [keychain EXCEPT ![q] = t]
        /\ latest' = IF proc[p].cmd = "import" THEN [latest EXCEPT ![q] = t]
                                               ELSE latest
    BY <1>4 DEF SaveKey, Saved
  <2>3. UNCHANGED <<darwin, files>>
    BY <1>4, Frames DEF WritesKey
  <2> HIDE DEF q, t
  <2>4. keychain' \in [Slot -> AnyToken \cup {None}]
    BY <1>1, <1>2, <2>1, <2>2
  <2>5. latest' \in [Profile -> Token \cup {None}]
    BY <1>1, <2>1, <2>2
  <2> QED BY <1>1, <1>2, <2>1, <2>2, <2>3, <2>4, <2>5
<1>5. ASSUME NEW p \in Proc, SweepKey(p) \/ DeleteKey(p)
      PROVE  Stores'
  <2>1. proc[p].profile \in Profile
    BY <1>1 DEF Process
  <2>2. \/ keychain' = keychain
        \/ \E x \in Slot : keychain' = [keychain EXCEPT ![x] = None]
    BY <1>2, <1>5, <2>1 DEF SweepKey, DeleteKey
  <2>3. \/ latest' = latest
        \/ \E x \in Profile : latest' = [latest EXCEPT ![x] = None]
    BY <1>1, <1>5, <2>1 DEF SweepKey, DeleteKey
  <2>4. UNCHANGED <<darwin, files>>
    BY <1>5, Frames DEF WritesKey
  <2>5. /\ keychain' \in [Slot -> AnyToken \cup {None}]
        /\ \A x \in Slot : keychain'[x] \in {keychain[x], None}
    BY <1>1, <2>2
  <2>6. latest' \in [Profile -> Token \cup {None}]
    BY <1>1, <2>3
  <2> QED BY <1>1, <1>2, <2>4, <2>5, <2>6
<1>6. ASSUME NEW p \in Proc, WritesFile(p)
      PROVE  Stores'
  <2> DEFINE q == proc[p].profile
             t == proc[p].token
  <2>1. /\ q \in Profile
        /\ WriteToken(p) => /\ t \in AnyToken
                            /\ proc[p].cmd = "import" => t \in Token
    BY <1>1 DEF WriteToken, At, Placed, Process, AnyToken
  <2>2. UNCHANGED <<darwin, keychain>>
    BY <1>6, Frames
  <2>3. \/ files' = files
        \/ SaveToFile(p) /\ files' = [files EXCEPT ![q] = Empty]
        \/ WriteToken(p) /\ files' = [files EXCEPT ![q] = t]
        \/ files' = [files EXCEPT ![Legacy] = None]
        \/ files' = [files EXCEPT ![q] = None]
    BY <1>6 DEF WritesFile, SaveToFile, WriteToken, WriteFails, SweepFile,
       DeleteFile, store
  <2>4. \/ latest' = latest
        \/ /\ WriteToken(p) /\ proc[p].cmd = "import"
           /\ latest' = [latest EXCEPT ![q] = t]
        \/ latest' = [latest EXCEPT ![q] = IF darwin THEN @ ELSE None]
    BY <1>6 DEF WritesFile, SaveToFile, WriteToken, WriteFails, SweepFile,
       DeleteFile, Saved, history
  <2> HIDE DEF q, t
  <2>5. /\ files' \in [Slot -> AnyToken \cup {None, Empty}]
        /\ files'[Legacy] \in {files[Legacy], None}
    BY <1>1, <1>2, <2>1, <2>3
  <2>6. latest' \in [Profile -> Token \cup {None}]
    BY <1>1, <2>1, <2>4
  <2> QED BY <1>1, <2>2, <2>5, <2>6
<1>7. ASSUME NEW p \in Proc, KeepsStores(p)
      PROVE  Stores'
  <2>1. UNCHANGED <<darwin, keychain, files, latest>>
    BY <1>7, Frames
  <2> QED BY <1>1, <2>1
<1> QED
  BY <1>3, <1>4, <1>5, <1>6, <1>7 DEF Next, KeepsStores, WritesFile

(* Every step leaves texts in the files of the registry, under two names.  *)
LEMMA RegistryTyped ==
  ASSUME TypeInv, [Next]_vars
  PROVE  Registry'
<1>1. Registry /\ \A p \in Proc : proc[p] \in Process /\ Placed(proc[p])
  BY DEF TypeInv, TypeOK, Registry, AllPlaced
<1> USE DEF Registry, PathsApart
<1>2. ASSUME UNCHANGED <<configs, registered>>
      PROVE  Registry'
  BY <1>1, <1>2 DEF configs
<1>3. CASE UNCHANGED vars
  BY <1>2, <1>3 DEF vars, history
<1>4. ASSUME NEW p \in Proc, OpenTmp(p)
      PROVE  Registry'
  <2> DEFINE i == IF tmpFile = None THEN FreshInode ELSE tmpFile
  <2>1. i \in Inode /\ i # configFile /\ Truncated \in Text
    BY <1>1, FreshIsFree, ConfigTypes DEF TypeInv
  <2>2. /\ content' = [content EXCEPT ![i] = Truncated] /\ tmpFile' = i
        /\ UNCHANGED <<configFile, registered>>
    BY <1>4 DEF OpenTmp, history
  <2> HIDE DEF i
  <2> QED BY <1>1, <2>1, <2>2
<1>5. ASSUME NEW p \in Proc, PutConfig(p)
      PROVE  Registry'
  <2> DEFINE i == proc[p].fd
             x == Over(content[i], proc[p].cfg)
  <2>1. /\ content' = [content EXCEPT ![i] = x]
        /\ UNCHANGED <<configFile, tmpFile, registered>>
    BY <1>5 DEF PutConfig, history
  <2>2. i \in Inode => x \in Text
    BY <1>1, ConfigTypes DEF TypeInv, Process
  <2> HIDE DEF i, x
  <2>3. content' \in [Inode -> Text]
    BY <1>1, <2>1, <2>2
  <2> QED BY <1>1, <2>1, <2>3
<1>6. ASSUME NEW p \in Proc, Rename(p)
      PROVE  Registry'
  <2>1. proc[p].profile \in Profile
    BY <1>1 DEF Process
  <2>2. content' = content
    BY <1>6 DEF Rename
  <2>3. registered' \subseteq registered \cup {proc[p].profile}
    BY <1>6 DEF Rename
  <2>4. \/ UNCHANGED <<configFile, tmpFile>>
        \/ configFile' = tmpFile /\ tmpFile' = None
    BY <1>6 DEF Rename
  <2> QED BY <1>1, <2>1, <2>2, <2>3, <2>4
<1>7. ASSUME NEW p \in Proc, KeepsRegistry(p)
      PROVE  Registry'
  BY <1>2, <1>7, Frames DEF configs
<1> QED
  BY <1>3, <1>4, <1>5, <1>6, <1>7
     DEF Next, KeepsRegistry, WritesKey, WritesFile

(* All types are kept.                                                     *)
LEMMA TypeStep == TypeInv /\ [Next]_vars => TypeInv'
<1> SUFFICES ASSUME TypeInv, [Next]_vars
             PROVE  TypeInv'
  OBVIOUS
<1>1. AllPlaced' /\ Stores' /\ Registry'
  BY PlacedStep, StoresStep, RegistryTyped
<1> QED
  BY <1>1
     DEF TypeInv, TypeOK, AllPlaced, Process, Stores, Registry

---------------------------------------------------------------------------
(* Processes                                                               *)

(* The same process, but for the file it has open, which may be unlinked.  *)
Alike(r, s) ==
  /\ s.pc = r.pc /\ s.cmd = r.cmd /\ s.profile = r.profile /\ s.slot = r.slot
  /\ s.token = r.token /\ s.cfg = r.cfg /\ s.fd = r.fd

ProcStep(p) ==
  KeepsStores(p) \/ WritesKey(p) \/ WritesFile(p)

(* A step is of one process; no other one notices, but for a writer whose  *)
(* file is removed.                                                        *)
LEMMA OthersStay ==
  ASSUME TypeInv, NEW p \in Proc, ProcStep(p), NEW o \in Proc \ {p}
  PROVE  /\ Alike(proc[o], proc'[o])
         /\ ~DeleteFile(p) => proc'[o] = proc[o]
<1>1. proc[o] \in Process /\ DOMAIN proc = Proc
  BY DEF TypeInv, AllPlaced
<1>2. CASE \E r : Become(p, r)
  BY <1>1, <1>2 DEF Become, Alike
<1>3. CASE DeleteFile(p)
  <2>1. \/ proc'[o] = proc[o]
        \/ proc'[o] = [proc[o] EXCEPT !.linked = FALSE]
    BY <1>3 DEF DeleteFile
  <2> QED BY <1>1, <1>3, <2>1 DEF Alike, Process
<1>4. CASE \E l : Goto(p, l)
  BY <1>1, <1>4 DEF Goto, Alike
<1>5. CASE \/ Start(p) \/ WhoAmI(p) \/ LoadKey(p) \/ LoadFile(p)
           \/ UseToken(p) \/ ReadConfig(p)
  BY <1>2, <1>4, <1>5
     DEF Start, WhoAmI, LoadKey, LoadFile, Found, UseToken, ReadConfig,
         AfterRegistry, Finish
<1>6. CASE OpenTmp(p) \/ PutConfig(p) \/ Rename(p) \/ Crash(p)
  BY <1>2, <1>4, <1>6
     DEF OpenTmp, PutConfig, Rename, AfterRegistry, Crash, Finish
<1>7. CASE WritesKey(p) \/ SaveToFile(p) \/ WriteToken(p) \/ WriteFails(p)
             \/ SweepFile(p)
  BY <1>2, <1>4, <1>7
     DEF WritesKey, SaveKey, SweepKey, DeleteKey, SaveToFile, WriteToken,
         WriteFails, SweepFile, Finish
<1> QED BY <1>3, <1>5, <1>6, <1>7 DEF ProcStep, KeepsStores, WritesFile

(* Where a process goes: to a step, with what it had at hand but a file    *)
(* and a slot.                                                             *)
LEMMA Gone ==
  ASSUME TypeInv, NEW p \in Proc, NEW l, Goto(p, l)
  PROVE  /\ proc'[p].pc = l /\ proc'[p].cmd = proc[p].cmd
         /\ proc'[p].profile = proc[p].profile /\ proc'[p].slot = proc[p].slot
         /\ proc'[p].token = proc[p].token /\ proc'[p].cfg = proc[p].cfg
         /\ proc'[p].linked = proc[p].linked
BY DEF TypeInv, AllPlaced, Goto, Process

(* Where a process goes when its whole state is given.                      *)
LEMMA Became ==
  ASSUME TypeInv, NEW p \in Proc, NEW r, Become(p, r)
  PROVE  proc'[p] = r
BY DEF TypeInv, AllPlaced, Become

(* A command that ends is idle.                                            *)
LEMMA Finished ==
  ASSUME TypeInv, NEW p \in Proc, Finish(p)
  PROVE  proc'[p] = Idle
BY DEF TypeInv, AllPlaced, Finish, Become

(* The steps of a process that neither write nor follow a write.           *)
Quiet == {"idle", "whoami", "save", "loadKey", "loadFile", "use", "deleteKey",
          "read"}

(* A step that changes no store and no registry, and the end of an update, *)
(* lead to a step that reads or asks.                                      *)
LEMMA Destination ==
  ASSUME TypeInv, NEW p \in Proc,
         \/ Start(p) \/ WhoAmI(p) \/ LoadKey(p) \/ LoadFile(p) \/ UseToken(p)
         \/ Crash(p) \/ AfterRegistry(p)
  PROVE  proc'[p].pc \in Quiet
<1>1. proc[p] \in Process
  BY DEF TypeInv, AllPlaced
<1> USE DEF Quiet
<1>2. CASE \E l \in Quiet : Goto(p, l)
  BY <1>2, Gone
<1>3. CASE Finish(p)
  BY <1>3, Finished DEF Idle
<1>4. CASE Start(p)
  <2>1. PICK cmd \in Command, flag \in Profile \cup {None}, t \in Token :
          LET q == EffectiveProfile(flag)
          IN Become(p, [Idle EXCEPT !.pc = FirstStep(cmd), !.cmd = cmd,
                                    !.profile = q, !.slot = q,
                                    !.token = IF cmd = "import" THEN t
                                                                ELSE None])
    BY <1>4 DEF Start
  <2>2. proc'[p].pc = FirstStep(cmd)
    BY <2>1, IdlePlaced, Became DEF Process
  <2> QED BY <2>2 DEF FirstStep, Command
<1>5. CASE WhoAmI(p) \/ UseToken(p) \/ Crash(p)
  BY <1>2, <1>3, <1>5 DEF WhoAmI, UseToken, Crash
<1>6. ASSUME NEW t, Found(p, t)
      PROVE  proc'[p].pc \in Quiet
  <2>1. \E l \in {"save", "whoami", "use"} :
          Become(p, [proc[p] EXCEPT !.pc = l, !.token = t])
    <3>1. CASE proc[p].slot = Legacy
      BY <1>6, <3>1 DEF Found, Become
    <3>2. CASE proc[p].slot # Legacy /\ proc[p].cmd = "list"
      BY <1>6, <3>2 DEF Found, Become
    <3>3. CASE proc[p].slot # Legacy /\ proc[p].cmd # "list"
      BY <1>6, <3>3 DEF Found, Become
    <3> QED BY <3>1, <3>2, <3>3
  <2>2. \A l : [proc[p] EXCEPT !.pc = l, !.token = t].pc = l
    BY <1>1 DEF Process
  <2> QED BY <2>1, <2>2, Became
<1>7. CASE LoadKey(p)
  BY <1>2, <1>6, <1>7 DEF LoadKey
<1>8. CASE LoadFile(p)
  <2>1. CASE Become(p, [proc[p] EXCEPT !.pc = "loadKey", !.slot = Legacy])
    <3>1. proc'[p].pc = "loadKey"
      BY <1>1, <2>1, Became DEF Process
    <3> QED BY <3>1
  <2> QED BY <1>3, <1>6, <1>8, <2>1 DEF LoadFile
<1>9. CASE AfterRegistry(p)
  <2>1. \/ Finish(p)
        \/ \E l \in {"use", "whoami"} :
             Become(p, [proc[p] EXCEPT !.pc = l, !.slot = Default])
    BY <1>9 DEF AfterRegistry
  <2>2. \A l : [proc[p] EXCEPT !.pc = l, !.slot = Default].pc = l
    BY <1>1 DEF Process
  <2> QED BY <1>3, <2>1, <2>2, Became
<1> QED BY <1>4, <1>5, <1>7, <1>8, <1>9

(* Only a read of the registry leads to an update of it.                   *)
LEMMA NotUpdating ==
  ASSUME TypeInv, NEW p \in Proc, KeepsRegistry(p),
         ~ReadConfig(p) \/ AfterRegistry(p) \/ Finish(p) \/ Goto(p, "loadKey")
  PROVE  ~Updating(p)'
<1>1. proc[p] \in Process
  BY DEF TypeInv, AllPlaced
<1> USE DEF Updating
<1>2. CASE \/ Start(p) \/ WhoAmI(p) \/ LoadKey(p) \/ LoadFile(p)
           \/ UseToken(p) \/ Crash(p) \/ AfterRegistry(p)
  BY <1>2, Destination DEF Quiet
<1>3. ASSUME NEW l, l \notin {"open", "put", "rename"}, Goto(p, l)
      PROVE  ~Updating(p)'
  BY <1>3, Gone
<1>4. CASE Finish(p)
  BY <1>4, Finished DEF Idle
<1>5. CASE WritesKey(p) \/ WriteToken(p) \/ WriteFails(p) \/ SweepFile(p)
  <2>1. \/ Finish(p)
        \/ \E l \in {"read", "sweepKey", "sweepFile", "deleteFile"} :
             Goto(p, l)
    BY <1>5 DEF WritesKey, SaveKey, SweepKey, DeleteKey, WriteToken,
       WriteFails, SweepFile
  <2> QED BY <1>3, <1>4, <2>1
<1>6. CASE SaveToFile(p)
  <2>1. proc'[p].pc = "write"
    BY <1>1, <1>6, Became DEF SaveToFile, Process
  <2> QED BY <2>1
<1>7. CASE DeleteFile(p)
  <2>1. proc'[p].pc = "read"
    BY <1>1, <1>7 DEF DeleteFile, Process
  <2> QED BY <2>1
<1> QED
  BY <1>2, <1>3, <1>4, <1>5, <1>6, <1>7 DEF KeepsRegistry, WritesFile

---------------------------------------------------------------------------
(* Steps                                                                   *)

(* Processes that update the registry go on with it unchanged.             *)
LEMMA RegistryKept ==
  ASSUME TypeInv, RegistryInv, ~raced,
         UNCHANGED <<content, configFile, tmpFile, registered>>,
         \A o \in Proc : Updating(o)' =>
           Updating(o) /\ Alike(proc[o], proc'[o])
  PROVE  RegistryInv'
<1>1. Alone /\ Current /\ Writes /\ Consistent
  BY DEF RegistryInv
<1>2. UNCHANGED <<Readable, Stored>>
  BY DEF Readable, Stored, File
<1>3. Alone' /\ Consistent'
  BY <1>1, <1>2 DEF Alone, Consistent
<1>4. Current'
  <2> SUFFICES ASSUME NEW o \in Proc, Updating(o)'
               PROVE  /\ proc'[o].cfg = Updated(proc[o], Stored)'
                      /\ proc'[o].cmd = "use" =>
                           proc'[o].profile \in Stored.profiles'
    BY DEF Current
  <2>1. Updated(proc[o], Stored)' = Updated(proc[o], Stored)
    BY <1>2 DEF Updated, Alike
  <2> QED BY <1>1, <1>2, <2>1 DEF Current, Alike
<1>5. Writes'
  BY <1>1 DEF Writes, Alike, At, Updating
<1> QED BY <1>3, <1>4, <1>5 DEF RegistryInv

(* As long as no two updates overlap, the registry is what the commands    *)
(* made of it.                                                             *)
LEMMA RegistryStep ==
  ASSUME TypeInv, TypeInv', RegistryInv, [Next]_vars
  PROVE  RegistryInv'
<1> SUFFICES ASSUME ~raced'
             PROVE  RegistryInv'
  BY DEF RegistryInv
<1>1. CASE UNCHANGED vars
  <2>1. UNCHANGED <<content, configFile, tmpFile, registered, raced, proc>>
    BY <1>1 DEF vars, configs, history
  <2> QED
    BY <2>1, RegistryKept DEF RegistryInv, Updating, Alike
<1> SUFFICES ASSUME NEW p \in Proc, ProcStep(p)
             PROVE  RegistryInv'
  BY <1>1 DEF Next, ProcStep, KeepsStores, WritesKey, WritesFile
<1>2. ~raced
  BY DEF ProcStep, KeepsStores, WritesKey, WritesFile, Start, WhoAmI, LoadKey,
     LoadFile, UseToken, ReadConfig, OpenTmp, PutConfig, Rename, Crash, SaveKey,
     SweepKey, DeleteKey, SaveToFile, WriteToken, WriteFails, SweepFile,
     DeleteFile, history
<1>3. Alone /\ Current /\ Writes /\ Consistent
  BY <1>2 DEF RegistryInv
<1>4. proc[p] \in Process
  BY DEF TypeInv, AllPlaced
<1>5. \A o \in Proc \ {p} : Alike(proc[o], proc'[o])
  BY OthersStay
<1>6. \A o \in Proc \ {p} : Updating(o)' => Updating(o)
  BY <1>5 DEF Updating, Alike
<1>7. ASSUME KeepsRegistry(p), ~Updating(p)'
      PROVE  RegistryInv'
  <2>1. UNCHANGED <<content, configFile, tmpFile, registered>>
    BY <1>7, Frames
  <2> QED BY <1>2, <1>5, <1>6, <1>7, <2>1, RegistryKept
<1>8. CASE /\ ReadConfig(p)
           /\ Become(p, [proc[p] EXCEPT !.pc = "open",
                                        !.cfg = Updated(proc[p], Stored)])
           /\ ~NothingToDo(p) /\ Readable
           /\ raced' = (raced \/ \E o \in Proc \ {p} : Updating(o))
  <2> DEFINE u == Updated(proc[p], Stored)
             r == [proc[p] EXCEPT !.pc = "open", !.cfg = u]
  <2>1. proc'[p] = r
    BY <1>8, Became
  <2>2. /\ r.pc = "open" /\ r.cfg = u /\ r.cmd = proc[p].cmd
        /\ r.profile = proc[p].profile
    <3> HIDE DEF u
    <3> QED BY <1>4 DEF Process
  <2> HIDE DEF r
  <2>3. \A o \in Proc \ {p} : ~Updating(o)'
    BY <1>6, <1>8
  <2>4. UNCHANGED <<content, configFile, tmpFile, registered>>
    BY <1>8, Frames DEF KeepsRegistry
  <2>5. UNCHANGED <<Readable, Stored>>
    BY <2>4 DEF Readable, Stored, File
  <2>6. Alone' /\ Consistent'
    BY <1>3, <2>3, <2>4, <2>5 DEF Alone, Consistent
  <2>7. Writes'
    BY <2>1, <2>2, <2>3 DEF Writes, At, Updating
  <2>8. Current'
    <3>1. Updated(proc[p], Stored)' = u
      BY <2>1, <2>2, <2>5 DEF Updated
    <3>2. proc[p].cmd = "use" => proc[p].profile \in Stored.profiles
      BY <1>8 DEF NothingToDo
    <3> QED BY <2>1, <2>2, <2>3, <2>5, <3>1, <3>2 DEF Current
  <2> QED BY <2>6, <2>7, <2>8 DEF RegistryInv
<1>9. CASE KeepsRegistry(p)
  <2>1. CASE ~ReadConfig(p) \/ AfterRegistry(p) \/ Finish(p)
               \/ Goto(p, "loadKey")
    BY <1>7, <1>9, <2>1, NotUpdating
  <2>2. CASE ReadConfig(p) /\ ~AfterRegistry(p) /\ ~Finish(p)
               /\ ~Goto(p, "loadKey")
    BY <1>8, <2>2 DEF ReadConfig
  <2> QED BY <2>1, <2>2
<1>10. CASE OpenTmp(p)
  <2> DEFINE i == IF tmpFile = None THEN FreshInode ELSE tmpFile
             r == [proc[p] EXCEPT !.pc = "put", !.fd = i]
  <2>1. i \in Inode /\ i # configFile /\ i # None
    BY FreshIsFree, FS_CardinalityType DEF TypeInv, TypeOK, PathsApart, Inode
  <2>2. /\ content' = [content EXCEPT ![i] = Truncated] /\ tmpFile' = i
        /\ Become(p, r) /\ UNCHANGED <<configFile, registered>>
    BY <1>10 DEF OpenTmp, history
  <2>3. /\ r.pc = "put" /\ r.cfg = proc[p].cfg /\ r.cmd = proc[p].cmd
        /\ r.profile = proc[p].profile /\ r.fd = i
    <3> HIDE DEF i
    <3> QED BY <1>4 DEF Process
  <2>4. proc'[p] = r
    BY <2>2, Became
  <2> HIDE DEF i, r
  <2>5. content \in [Inode -> Text] /\ configFile \in Inode \cup {None}
    BY DEF TypeInv, TypeOK
  <2>6. UNCHANGED <<Readable, Stored>>
    BY <2>1, <2>2, <2>5 DEF Readable, Stored, File
  <2>7. Updating(p) /\ \A o \in Proc \ {p} : ~Updating(o)'
    BY <1>3, <1>6, <1>10 DEF Alone, OpenTmp, At, Updating
  <2>8. Alone' /\ Consistent'
    BY <1>3, <2>2, <2>6, <2>7 DEF Alone, Consistent
  <2>9. Writes'
    BY <2>1, <2>2, <2>3, <2>4, <2>5, <2>7 DEF Writes, At, Updating
  <2>10. Current'
    <3>1. Updated(proc[p], Stored)' = Updated(proc[p], Stored)
      BY <2>3, <2>4, <2>6 DEF Updated
    <3> QED BY <1>3, <2>3, <2>4, <2>6, <2>7, <3>1 DEF Current
  <2> QED BY <2>8, <2>9, <2>10 DEF RegistryInv
<1>11. CASE PutConfig(p)
  <2> DEFINE r == [proc[p] EXCEPT !.pc = "rename", !.fd = None]
  <2>1. proc[p].fd = tmpFile /\ tmpFile # None /\ content[tmpFile] = Truncated
    BY <1>3, <1>11 DEF PutConfig, Writes
  <2>2. tmpFile \in Inode /\ tmpFile # configFile
    BY <2>1 DEF TypeInv, TypeOK, PathsApart
  <2>3. Over(Truncated, proc[p].cfg) = Whole(proc[p].cfg)
    BY DEF Over, Truncated
  <2>4. /\ content' = [content EXCEPT ![tmpFile] = Whole(proc[p].cfg)]
        /\ Become(p, r) /\ UNCHANGED <<configFile, tmpFile, registered>>
    BY <1>11, <2>1, <2>3 DEF PutConfig, history
  <2>5. /\ r.pc = "rename" /\ r.cfg = proc[p].cfg /\ r.cmd = proc[p].cmd
        /\ r.profile = proc[p].profile
    BY <1>4 DEF Process
  <2>6. proc'[p] = r
    BY <2>4, Became
  <2> HIDE DEF r
  <2>7. content \in [Inode -> Text] /\ configFile \in Inode \cup {None}
    BY DEF TypeInv, TypeOK
  <2>8. UNCHANGED <<Readable, Stored>>
    BY <2>2, <2>4, <2>7 DEF Readable, Stored, File
  <2>9. Updating(p) /\ \A o \in Proc \ {p} : ~Updating(o)'
    BY <1>3, <1>6, <1>11 DEF Alone, PutConfig, At, Updating
  <2>10. Alone' /\ Consistent'
    BY <1>3, <2>4, <2>8, <2>9 DEF Alone, Consistent
  <2>11. Writes'
    BY <2>1, <2>2, <2>4, <2>5, <2>6, <2>7, <2>9 DEF Writes, At, Updating
  <2>12. Current'
    <3>1. Updated(proc[p], Stored)' = Updated(proc[p], Stored)
      BY <2>5, <2>6, <2>8 DEF Updated
    <3> QED BY <1>3, <2>5, <2>6, <2>8, <2>9, <3>1 DEF Current
  <2> QED BY <2>10, <2>11, <2>12 DEF RegistryInv
<1>12. CASE Rename(p)
  <2> DEFINE c == proc[p].cfg
             q == proc[p].profile
  <2>1. tmpFile # None /\ content[tmpFile] = Whole(c)
    BY <1>3, <1>12 DEF Rename, Writes
  <2>2. /\ configFile' = tmpFile /\ tmpFile' = None /\ content' = content
        /\ registered' = CASE proc[p].cmd = "use"    -> registered
                           [] proc[p].cmd = "remove" -> registered \ {q}
                           [] OTHER -> registered \cup {q}
    BY <1>12, <2>1 DEF Rename
  <2>3. Updating(p) /\ \A o \in Proc \ {p} : ~Updating(o)'
    BY <1>3, <1>6, <1>12 DEF Alone, Rename, At, Updating
  <2>4. ~Updating(p)'
    <3>1. proc'[p].pc \in Quiet
      BY <1>12, Destination DEF Rename
    <3> QED BY <3>1 DEF Quiet, Updating
  <2>5. Readable' /\ Stored' = c
    BY <2>1, <2>2 DEF Readable, Stored, File, Whole
  <2>6. c = Updated(proc[p], Stored)
        /\ (proc[p].cmd = "use" => q \in Stored.profiles)
    BY <1>3, <2>3 DEF Current
  <2>7. /\ Stored \in Config /\ Stored.profiles = registered
        /\ Stored.active \in registered \cup {None}
    BY <1>3, ConfigTypes DEF Consistent, TypeInv
  <2>8. c.profiles = registered' /\ c.active \in registered' \cup {None}
    <3> HIDE DEF c, q
    <3>1. CASE proc[p].cmd = "use"
      BY <2>2, <2>6, <2>7, <3>1 DEF Updated, Config, q
    <3>2. CASE proc[p].cmd = "remove"
      BY <2>2, <2>6, <2>7, <3>2 DEF Updated, Config, q
    <3>3. CASE proc[p].cmd \notin {"use", "remove"}
      BY <2>2, <2>6, <2>7, <3>3 DEF Updated, Config, q
    <3> QED BY <3>1, <3>2, <3>3
  <2>9. Consistent'
    BY <2>5, <2>8 DEF Consistent
  <2>10. Alone' /\ Current' /\ Writes'
    BY <2>3, <2>4 DEF Alone, Current, Writes, At, Updating
  <2> QED BY <2>9, <2>10 DEF RegistryInv
<1> QED
  BY <1>9, <1>10, <1>11, <1>12
     DEF ProcStep, KeepsStores, KeepsRegistry

(* A step that keeps the stores leads neither to a write of a token nor to *)
(* a sweep or a deletion, and begins at no write but to end it.            *)
LEMMA KeptStores ==
  ASSUME TypeInv, NEW p \in Proc, KeepsStores(p)
  PROVE  /\ proc'[p].pc \notin {"write", "sweepKey", "sweepFile", "deleteFile"}
         /\ At(p, "write") => halfWritten'
<1>1. proc[p] \in Process
  BY DEF TypeInv, AllPlaced
<1>2. At(p, "write") => halfWritten'
  BY DEF KeepsStores, Start, WhoAmI, LoadKey, LoadFile, UseToken, ReadConfig,
     OpenTmp, PutConfig, Rename, Crash, At
<1>3. CASE \/ Start(p) \/ WhoAmI(p) \/ LoadKey(p) \/ LoadFile(p)
           \/ UseToken(p) \/ Crash(p) \/ AfterRegistry(p)
  BY <1>2, <1>3, Destination DEF Quiet
<1>4. CASE ReadConfig(p) /\ ~AfterRegistry(p)
  <2>1. CASE Finish(p)
    BY <1>2, <2>1, Finished DEF Idle
  <2>2. CASE Goto(p, "loadKey")
    BY <1>2, <2>2, Gone
  <2>3. ASSUME NEW u, Become(p, [proc[p] EXCEPT !.pc = "open", !.cfg = u])
        PROVE  proc'[p].pc = "open"
    BY <1>1, <2>3, Became DEF Process
  <2> QED BY <1>2, <1>4, <2>1, <2>2, <2>3 DEF ReadConfig
<1>5. CASE OpenTmp(p)
  <2>1. PICK i : Become(p, [proc[p] EXCEPT !.pc = "put", !.fd = i])
    BY <1>5 DEF OpenTmp
  <2>2. proc'[p].pc = "put"
    BY <1>1, <2>1, Became DEF Process
  <2> QED BY <1>2, <2>2
<1>6. CASE PutConfig(p)
  <2>1. Become(p, [proc[p] EXCEPT !.pc = "rename", !.fd = None])
    BY <1>6 DEF PutConfig
  <2>2. proc'[p].pc = "rename"
    BY <1>1, <2>1, Became DEF Process
  <2> QED BY <1>2, <2>2
<1> QED BY <1>3, <1>4, <1>5, <1>6 DEF KeepsStores, Rename

(* What a step writes into the stores, where the process then is, and who  *)
(* is told of it.                                                          *)
LEMMA StoreWritten ==
  ASSUME TypeInv, NEW p \in Proc
  PROVE  LET q == proc[p].profile
             t == proc[p].token
         IN /\ SaveKey(p) =>
                 /\ At(p, "save") /\ darwin
                 /\ keychain' = [keychain EXCEPT ![q] = t]
                 /\ proc'[p].pc = IF q = Default THEN "sweepKey" ELSE "read"
                 /\ proc'[p].profile = q
            /\ SweepKey(p) =>
                 /\ At(p, "sweepKey") /\ UNCHANGED latest
                 /\ keychain' \in {keychain, [keychain EXCEPT ![Legacy] = None]}
                 /\ proc'[p].pc = "sweepFile" /\ proc'[p].profile = q
            /\ DeleteKey(p) =>
                 /\ At(p, "deleteKey")
                 /\ keychain' \in {keychain, [keychain EXCEPT ![q] = None]}
                 /\ q = Default => touched'
                 /\ proc'[p].pc = "deleteFile" /\ proc'[p].profile = q
            /\ SaveToFile(p) =>
                 /\ At(p, "save") /\ UNCHANGED latest
                 /\ files' = [files EXCEPT ![q] = Empty]
                 /\ proc'[p].pc = "write" /\ proc'[p].profile = q
                 /\ proc'[p].token = t /\ proc'[p].linked
            /\ WriteToken(p) =>
                 /\ At(p, "write")
                 /\ files' = IF proc[p].linked
                             THEN [files EXCEPT ![q] = t] ELSE files
                 /\ proc'[p].pc = IF q = Default THEN "sweepFile" ELSE "read"
                 /\ proc'[p].profile = q
            /\ WriteFails(p) => At(p, "write") /\ halfWritten'
            /\ SweepFile(p) =>
                 /\ At(p, "sweepFile") /\ UNCHANGED latest
                 /\ files' = [files EXCEPT ![Legacy] = None]
                 /\ proc'[p].pc = "read" /\ proc'[p].profile = q
            /\ DeleteFile(p) =>
                 /\ At(p, "deleteFile")
                 /\ files' = [files EXCEPT ![q] = None]
                 /\ proc'[p].pc = "read" /\ proc'[p].profile = q
<1> DEFINE q == proc[p].profile
           t == proc[p].token
<1>1. proc[p] \in Process
  BY DEF TypeInv, AllPlaced
<1>2. SaveKey(p) =>
        /\ At(p, "save") /\ darwin
        /\ keychain' = [keychain EXCEPT ![q] = t]
        /\ proc'[p].pc = IF q = Default THEN "sweepKey" ELSE "read"
        /\ proc'[p].profile = q
  BY Gone DEF SaveKey
<1>3. SweepKey(p) =>
        /\ At(p, "sweepKey") /\ UNCHANGED latest
        /\ keychain' \in {keychain, [keychain EXCEPT ![Legacy] = None]}
        /\ proc'[p].pc = "sweepFile" /\ proc'[p].profile = q
  BY Gone DEF SweepKey
<1>4. DeleteKey(p) =>
        /\ At(p, "deleteKey")
        /\ keychain' \in {keychain, [keychain EXCEPT ![q] = None]}
        /\ q = Default => touched'
        /\ proc'[p].pc = "deleteFile" /\ proc'[p].profile = q
  BY Gone DEF DeleteKey
<1>5. ASSUME SaveToFile(p)
      PROVE  /\ At(p, "save") /\ UNCHANGED latest
             /\ files' = [files EXCEPT ![q] = Empty]
             /\ proc'[p].pc = "write" /\ proc'[p].profile = q
             /\ proc'[p].token = t /\ proc'[p].linked
  <2>1. /\ At(p, "save") /\ UNCHANGED latest
        /\ files' = [files EXCEPT ![q] = Empty]
        /\ Become(p, [proc[p] EXCEPT !.pc = "write", !.linked = TRUE])
    BY <1>5 DEF SaveToFile
  <2>2. proc'[p] = [proc[p] EXCEPT !.pc = "write", !.linked = TRUE]
    BY <2>1, Became
  <2> QED BY <1>1, <2>1, <2>2 DEF Process
<1>6. WriteToken(p) =>
        /\ At(p, "write")
        /\ files' = IF proc[p].linked THEN [files EXCEPT ![q] = t] ELSE files
        /\ proc'[p].pc = IF q = Default THEN "sweepFile" ELSE "read"
        /\ proc'[p].profile = q
  BY Gone DEF WriteToken
<1>7. WriteFails(p) => At(p, "write") /\ halfWritten'
  BY DEF WriteFails
<1>8. SweepFile(p) =>
        /\ At(p, "sweepFile") /\ UNCHANGED latest
        /\ files' = [files EXCEPT ![Legacy] = None]
        /\ proc'[p].pc = "read" /\ proc'[p].profile = q
  BY Gone DEF SweepFile, history
<1>9. DeleteFile(p) =>
        /\ At(p, "deleteFile")
        /\ files' = [files EXCEPT ![q] = None]
        /\ proc'[p].pc = "read" /\ proc'[p].profile = q
  BY <1>1 DEF DeleteFile, Process
<1> QED BY <1>2, <1>3, <1>4, <1>5, <1>6, <1>7, <1>8, <1>9

(* As long as the user leaves the default profile alone and no write stops *)
(* half way, a process that saves its token saves the legacy one.          *)
LEMMA SavesLegacy ==
  ASSUME TypeInv, NEW p \in Proc, SaveKey(p) \/ SaveToFile(p), ~touched',
         proc[p].profile = Default
  PROVE  proc[p].token = LegacyToken
<1>1. Placed(proc[p]) /\ At(p, "save")
  BY DEF TypeInv, AllPlaced, SaveKey, SaveToFile
<1>2. proc[p].cmd # "import"
  BY DEF SaveKey, SaveToFile, Touch
<1> QED BY <1>1, <1>2 DEF Placed, At

(* An import or a removal of default and a write cut short are remembered. *)
LEMMA LegacyMonotone ==
  ASSUME NEW p \in Proc, ProcStep(p), ~touched', ~halfWritten'
  PROVE  ~touched /\ ~halfWritten
<1>1. ~touched
  BY DEF ProcStep, KeepsStores, WritesKey, WritesFile, Start, WhoAmI, LoadKey,
     LoadFile, UseToken, ReadConfig, OpenTmp, PutConfig, Rename, Crash, SaveKey,
     SweepKey, DeleteKey, SaveToFile, WriteToken, WriteFails, SweepFile,
     DeleteFile, Touch, history
<1>2. ~halfWritten
  BY DEF ProcStep, KeepsStores, WritesKey, WritesFile, Start, WhoAmI, LoadKey,
     LoadFile, UseToken, ReadConfig, OpenTmp, PutConfig, Rename, Crash, SaveKey,
     SweepKey, DeleteKey, SaveToFile, WriteToken, WriteFails, SweepFile,
     DeleteFile, history
<1> QED BY <1>1, <1>2

(* What the default slot was given it keeps.                               *)
LEMMA AdoptedStays ==
  ASSUME TypeInv, LegacyInv, NEW p \in Proc, ProcStep(p), ~touched',
         ~halfWritten', Adopted
  PROVE  Adopted'
<1> DEFINE q == proc[p].profile
<1>1. /\ Placed(proc[p]) /\ q \in Profile
      /\ Default \in Slot /\ Legacy # Default
      /\ keychain \in [Slot -> AnyToken \cup {None}]
      /\ files \in [Slot -> AnyToken \cup {None, Empty}]
  BY DEF TypeInv, TypeOK, AllPlaced, Process, Slot
<1>2. \A o \in Proc : proc[o].profile = Default =>
        /\ At(o, "write") => proc[o].linked /\ proc[o].token = LegacyToken
        /\ ~At(o, "deleteFile")
  BY LegacyMonotone DEF LegacyInv
<1>3. \A o \in Proc \ {p} : At(o, "write") /\ proc[o].profile = Default =>
        Adopted'
  BY OthersStay DEF Alike, At, Adopted
<1>4. CASE At(p, "write") /\ q = Default
  <2>1. ~KeepsStores(p)
    BY <1>4, KeptStores
  <2>2. WriteToken(p)
    BY <1>4, <2>1
       DEF ProcStep, WritesKey, WritesFile, SaveKey, SweepKey, DeleteKey,
           SaveToFile, WriteFails, SweepFile, DeleteFile, At
  <2>3. files'[Default] = LegacyToken
    BY <1>1, <1>2, <1>4, <2>2, StoreWritten
  <2> QED BY <2>3 DEF Adopted
<1>5. ASSUME UNCHANGED <<keychain[Default], files[Default]>>
      PROVE  Adopted'
  BY <1>3, <1>4, <1>5 DEF Adopted
<1>6. CASE SaveKey(p)
  <2>1. UNCHANGED files
    BY <1>6, Frames DEF WritesKey
  <2>2. CASE q = Default
    BY <1>1, <1>6, <2>2, SavesLegacy, StoreWritten DEF Adopted
  <2>3. CASE q # Default
    BY <1>1, <1>5, <1>6, <2>1, <2>3, StoreWritten
  <2> QED BY <2>2, <2>3
<1>7. CASE SweepKey(p) \/ DeleteKey(p)
  <2>1. UNCHANGED files
    BY <1>7, Frames DEF WritesKey
  <2>2. keychain'[Default] = keychain[Default]
    BY <1>1, <1>7, StoreWritten
  <2> QED BY <1>5, <2>1, <2>2
<1>8. CASE SaveToFile(p) /\ q = Default
  BY <1>8, StoreWritten DEF Adopted, At
<1>9. CASE WriteToken(p) /\ q = Default
  BY <1>4, <1>9 DEF WriteToken
<1>10. CASE /\ WritesFile(p)
            /\ ~(SaveToFile(p) /\ q = Default)
            /\ ~(WriteToken(p) /\ q = Default)
  <2>1. UNCHANGED keychain
    BY <1>10, Frames
  <2>2. files'[Default] = files[Default]
    BY <1>1, <1>2, <1>10, StoreWritten DEF WritesFile
  <2> QED BY <1>5, <2>1, <2>2
<1>11. CASE KeepsStores(p)
  <2>1. UNCHANGED <<keychain, files>>
    BY <1>11, Frames
  <2> QED BY <1>5, <2>1
<1> QED
  BY <1>6, <1>7, <1>8, <1>9, <1>10, <1>11 DEF ProcStep, WritesKey

(* The legacy token is in its own slot until the default one has it.       *)
LEMMA LegacyStep ==
  ASSUME TypeInv, LegacyInv, [Next]_vars
  PROVE  LegacyInv'
<1> SUFFICES ASSUME ~touched', ~halfWritten'
             PROVE  LegacyInv'
  BY DEF LegacyInv
<1>1. CASE UNCHANGED vars
  <2>1. UNCHANGED <<keychain, files, proc, touched, halfWritten>>
    BY <1>1 DEF vars, store, history
  <2> QED BY <2>1 DEF LegacyInv, Adopted, At
<1> SUFFICES ASSUME NEW p \in Proc, ProcStep(p)
             PROVE  LegacyInv'
  BY <1>1 DEF Next, ProcStep, KeepsStores, WritesKey, WritesFile
<1> DEFINE q == proc[p].profile
<1>2. /\ Adopted \/ LegacyToken \in {keychain[Legacy], files[Legacy]}
      /\ \A o \in Proc : proc[o].profile = Default =>
           /\ proc[o].pc \in {"sweepKey", "sweepFile"} => Adopted
           /\ At(o, "write") => proc[o].linked /\ proc[o].token = LegacyToken
           /\ ~At(o, "deleteFile")
  BY LegacyMonotone DEF LegacyInv
<1>3. /\ Placed(proc[p]) /\ q \in Profile /\ Profile \subseteq Slot
      /\ Legacy \in Slot /\ Legacy \notin Profile
      /\ keychain \in [Slot -> AnyToken \cup {None}]
      /\ files \in [Slot -> AnyToken \cup {None, Empty}]
  BY DEF TypeInv, TypeOK, AllPlaced, Process, Slot
<1>4. Adopted => Adopted'
  BY AdoptedStays
<1>5. SweepKey(p) \/ SweepFile(p) => q = Default /\ Adopted
  BY <1>2, <1>3 DEF SweepKey, SweepFile, Placed, At
<1>6. \/ UNCHANGED <<keychain[Legacy], files[Legacy]>>
      \/ SweepKey(p) \/ SweepFile(p)
  <2>1. CASE KeepsStores(p)
    BY <2>1, Frames
  <2>2. CASE WritesKey(p) /\ ~SweepKey(p)
    BY <1>3, <2>2, Frames, StoreWritten DEF WritesKey
  <2>3. CASE WritesFile(p) /\ ~SweepFile(p)
    <3>1. UNCHANGED keychain
      BY <2>3, Frames
    <3>2. WriteFails(p) => UNCHANGED files
      BY DEF WriteFails, store
    <3> QED BY <1>3, <2>3, <3>1, <3>2, StoreWritten DEF WritesFile
  <2> QED BY <2>1, <2>2, <2>3 DEF ProcStep
<1>7. (Adopted \/ LegacyToken \in {keychain[Legacy], files[Legacy]})'
  BY <1>2, <1>4, <1>5, <1>6
<1>8. ASSUME NEW o \in Proc \ {p}, proc'[o].profile = Default
      PROVE  /\ proc'[o].pc \in {"sweepKey", "sweepFile"} => Adopted'
             /\ proc'[o].pc = "write" =>
                  proc'[o].linked /\ proc'[o].token = LegacyToken
             /\ proc'[o].pc # "deleteFile"
  <2>1. Alike(proc[o], proc'[o])
    BY OthersStay
  <2>2. proc'[o].linked = proc[o].linked
    <3>1. CASE DeleteFile(p)
      <4>1. q # Default
        BY <1>2, <3>1 DEF DeleteFile
      <4>2. proc'[o] = proc[o]
        BY <1>8, <2>1, <3>1, <4>1 DEF DeleteFile, Alike
      <4> QED BY <4>2
    <3> QED BY <3>1, OthersStay
  <2> QED BY <1>2, <1>4, <1>8, <2>1, <2>2 DEF Alike, At
<1>9. ASSUME proc'[p].profile = Default
      PROVE  /\ proc'[p].pc \in {"sweepKey", "sweepFile"} => Adopted'
             /\ proc'[p].pc = "write" =>
                  proc'[p].linked /\ proc'[p].token = LegacyToken
             /\ proc'[p].pc # "deleteFile"
  <2>1. CASE KeepsStores(p)
    BY <2>1, KeptStores
  <2>2. CASE SaveKey(p)
    <3>1. q = Default
      BY <1>9, <2>2, StoreWritten
    <3>2. keychain'[Default] = LegacyToken
      BY <1>3, <2>2, <3>1, SavesLegacy, StoreWritten
    <3> QED BY <2>2, <3>1, <3>2, StoreWritten DEF Adopted
  <2>3. CASE SweepKey(p)
    BY <1>4, <1>5, <2>3, StoreWritten
  <2>4. CASE DeleteKey(p)
    BY <1>9, <2>4, StoreWritten
  <2>5. CASE SaveToFile(p)
    BY <1>9, <2>5, SavesLegacy, StoreWritten
  <2>6. CASE WriteToken(p)
    <3>1. q = Default /\ proc'[p].pc = "sweepFile"
      BY <1>9, <2>6, StoreWritten
    <3>2. Adopted'
      BY <1>2, <1>4, <2>6, <3>1 DEF WriteToken, Adopted
    <3> QED BY <3>1, <3>2
  <2>7. CASE SweepFile(p) \/ DeleteFile(p)
    BY <2>7, StoreWritten
  <2>8. ~WriteFails(p)
    BY StoreWritten
  <2> QED
    BY <2>1, <2>2, <2>3, <2>4, <2>5, <2>6, <2>7, <2>8
       DEF ProcStep, WritesKey, WritesFile
<1> QED BY <1>7, <1>8, <1>9 DEF LegacyInv, At

(* What a step makes of the tokens of a profile: nothing unless it is that *)
(* of its command, and otherwise what it has the history remember.         *)
LEMMA OtherProfiles ==
  ASSUME TypeInv, NEW p \in Proc, ProcStep(p),
         NEW x \in Profile \ {proc[p].profile}
  PROVE  UNCHANGED <<keychain[x], files[x], latest[x]>>
<1> DEFINE q == proc[p].profile
<1>1. /\ q \in Profile /\ x \in Slot /\ Legacy # x
      /\ keychain \in [Slot -> AnyToken \cup {None}]
      /\ files \in [Slot -> AnyToken \cup {None, Empty}]
      /\ latest \in [Profile -> Token \cup {None}]
  BY DEF TypeInv, TypeOK, AllPlaced, Process, Slot
<1>2. keychain'[x] = keychain[x]
  <2>1. CASE KeepsStores(p) \/ WritesFile(p)
    BY <2>1, Frames
  <2>2. CASE WritesKey(p)
    BY <1>1, <2>2, StoreWritten DEF WritesKey
  <2> QED BY <2>1, <2>2 DEF ProcStep
<1>3. files'[x] = files[x]
  <2>1. CASE KeepsStores(p) \/ WritesKey(p)
    BY <2>1, Frames
  <2>2. CASE WriteFails(p)
    BY <2>2 DEF WriteFails, store
  <2>3. CASE WritesFile(p) /\ ~WriteFails(p)
    BY <1>1, <2>3, StoreWritten DEF WritesFile
  <2> QED BY <2>1, <2>2, <2>3 DEF ProcStep
<1>4. latest'[x] = latest[x]
  <2>1. CASE KeepsStores(p)
    BY <2>1, Frames
  <2>2. CASE SaveKey(p) \/ WriteToken(p)
    BY <1>1, <2>2 DEF SaveKey, WriteToken, Saved
  <2>3. CASE DeleteKey(p) \/ DeleteFile(p)
    BY <1>1, <2>3 DEF DeleteKey, DeleteFile
  <2>4. CASE SweepKey(p) \/ SweepFile(p) \/ SaveToFile(p) \/ WriteFails(p)
    BY <2>4 DEF SweepKey, SweepFile, SaveToFile, WriteFails, history
  <2> QED BY <2>1, <2>2, <2>3, <2>4 DEF ProcStep, WritesKey, WritesFile
<1> QED BY <1>2, <1>3, <1>4

(* A refusal and a write cut short are remembered.                         *)
LEMMA LoadMonotone ==
  ASSUME NEW p \in Proc, ProcStep(p)
  PROVE  (refused => refused') /\ (halfWritten => halfWritten')
<1>1. refused => refused'
  BY DEF ProcStep, KeepsStores, WritesKey, WritesFile, Start, WhoAmI, LoadKey,
     LoadFile, UseToken, ReadConfig, OpenTmp, PutConfig, Rename, Crash, SaveKey,
     SweepKey, DeleteKey, SaveToFile, WriteToken, WriteFails, SweepFile,
     DeleteFile, history
<1>2. halfWritten => halfWritten'
  BY DEF ProcStep, KeepsStores, WritesKey, WritesFile, Start, WhoAmI, LoadKey,
     LoadFile, UseToken, ReadConfig, OpenTmp, PutConfig, Rename, Crash, SaveKey,
     SweepKey, DeleteKey, SaveToFile, WriteToken, WriteFails, SweepFile,
     DeleteFile, history
<1> QED BY <1>1, <1>2

(* A token file that was empty, is empty after the step and belongs to a   *)
(* write that goes on, unless one was cut short.                           *)
LEMMA EmptyStays ==
  ASSUME TypeInv, NEW p \in Proc, ProcStep(p), NEW x \in Profile,
         halfWritten \/ BeingWritten(x), files'[x] = Empty
  PROVE  halfWritten' \/ BeingWritten(x)'
<1> SUFFICES ASSUME ~halfWritten'
             PROVE  BeingWritten(x)'
  OBVIOUS
<1>1. PICK o \in Proc :
        At(o, "write") /\ proc[o].linked /\ proc[o].profile = x
  BY LoadMonotone DEF BeingWritten
<1>2. /\ x \in Slot /\ files \in [Slot -> AnyToken \cup {None, Empty}]
      /\ Placed(proc[o])
  BY DEF TypeInv, TypeOK, AllPlaced, Slot
<1>3. CASE o = p
  <2>1. WriteToken(p)
    <3>1. ~KeepsStores(p) /\ ~WriteFails(p)
      BY <1>1, <1>3, KeptStores, StoreWritten
    <3> QED
      BY <1>1, <1>3, <3>1
         DEF ProcStep, WritesKey, WritesFile, SaveKey, SweepKey, DeleteKey,
             SaveToFile, SweepFile, DeleteFile, At
  <2>2. proc[p].token # Empty
    BY <1>1, <1>2, <1>3 DEF Placed, At, AnyToken
  <2>3. files'[x] = proc[p].token
    BY <1>1, <1>2, <1>3, <2>1, StoreWritten
  <2> QED BY <2>2, <2>3
<1>4. CASE o # p
  <2>1. Alike(proc[o], proc'[o])
    BY <1>4, OthersStay
  <2>2. proc'[o].linked
    <3>1. CASE DeleteFile(p)
      <4>1. files' = [files EXCEPT ![proc[p].profile] = None]
        BY <3>1, StoreWritten
      <4>2. proc[p].profile # x
        BY <1>2, <4>1
      <4>3. proc'[o] = proc[o]
        BY <1>1, <1>4, <3>1, <4>2 DEF DeleteFile
      <4> QED BY <1>1, <4>3
    <3>2. CASE ~DeleteFile(p)
      BY <1>1, <1>4, <3>2, OthersStay
    <3> QED BY <3>1, <3>2
  <2> QED BY <1>1, <2>1, <2>2 DEF BeingWritten, Alike, At
<1> QED BY <1>3, <1>4

(* A token reaches the file that is there, or one that was removed.        *)
Lands(p) == WriteToken(p) /\ proc[p].linked
Drops(p) == WriteToken(p) /\ ~proc[p].linked

(* A write of a token is one or the other.                                 *)
LEMMA Landed ==
  ASSUME TypeInv, NEW p \in Proc
  PROVE  /\ WriteToken(p) <=> Lands(p) \/ Drops(p)
         /\ Lands(p) =>
              /\ At(p, "write") /\ Saved(p)
              /\ files' = [files EXCEPT ![proc[p].profile] = proc[p].token]
         /\ Drops(p) => UNCHANGED <<files, latest>>
BY DEF Lands, Drops, WriteToken

(* Unless the keychain refused a call, a profile has the token imported    *)
(* last, in one store, or none.                                            *)
LEMMA LoadStep ==
  ASSUME TypeInv, TypeInv', LoadInv, [Next]_vars
  PROVE  LoadInv'
<1> SUFFICES ASSUME ~refused'
             PROVE  LoadInv'
  BY DEF LoadInv
<1>1. CASE UNCHANGED vars
  <2>1. UNCHANGED <<darwin, keychain, files, proc, latest, refused,
                    halfWritten>>
    BY <1>1 DEF vars, store, history
  <2> QED BY <2>1 DEF LoadInv, Good, BeingWritten, At
<1> SUFFICES ASSUME NEW p \in Proc, ProcStep(p)
             PROVE  LoadInv'
  BY <1>1 DEF Next, ProcStep, KeepsStores, WritesKey, WritesFile
<1> PICK q, t : q = proc[p].profile /\ t = proc[p].token
  OBVIOUS
<1>2. /\ \A x \in Profile :
           /\ Good(x, keychain[x])
           /\ files[x] = Empty \/ Good(x, files[x])
           /\ files[x] = Empty => halfWritten \/ BeingWritten(x)
           /\ darwin => files[x] = None
      /\ darwin => \A o \in Proc : ~At(o, "write")
  BY LoadMonotone DEF LoadInv
<1>3. /\ Placed(proc[p]) /\ q \in Profile /\ Profile \subseteq Slot
      /\ Legacy \notin Profile
      /\ keychain \in [Slot -> AnyToken \cup {None}]
      /\ files \in [Slot -> AnyToken \cup {None, Empty}]
      /\ latest \in [Profile -> Token \cup {None}]
      /\ ~darwin => \A x \in Slot : keychain[x] = None
      /\ ~darwin' => \A x \in Slot : keychain'[x] = None
  BY DEF TypeInv, TypeOK, AllPlaced, Process, Slot, LegacySlot
<1>4. darwin' = darwin
  BY Frames DEF ProcStep
<1>5. SaveToFile(p) => ~darwin
  BY DEF SaveToFile
<1>6. SaveKey(p) \/ Lands(p) =>
        \/ t = latest'[q]
        \/ q = Default /\ t = LegacyToken
  <2>1. CASE proc[p].cmd = "import"
    <3>1. SaveKey(p) \/ Lands(p) => latest' = [latest EXCEPT ![q] = t]
      BY <2>1, Landed DEF SaveKey, Saved
    <3> QED BY <1>3, <3>1
  <2>2. CASE proc[p].cmd # "import"
    BY <1>3, <2>2, Landed DEF SaveKey, Placed, At
  <2> QED BY <2>1, <2>2
<1>7. Lands(p) \/ UNCHANGED latest[q]
        \/ SaveKey(p) \/ DeleteKey(p) \/ DeleteFile(p)
  <2>1. CASE KeepsStores(p)
    BY <2>1, Frames
  <2>2. CASE Drops(p)
    BY <2>2, Landed
  <2>3. CASE SweepKey(p) \/ SweepFile(p) \/ SaveToFile(p) \/ WriteFails(p)
    BY <2>3 DEF SweepKey, SweepFile, SaveToFile, WriteFails, history
  <2> QED BY <2>1, <2>2, <2>3, Landed DEF ProcStep, WritesKey, WritesFile
<1>8. Good(q, keychain[q])'
  <2>1. CASE ~darwin
    BY <1>3, <1>4, <2>1 DEF Good
  <2>2. CASE SaveKey(p)
    <3>1. keychain'[q] = t
      BY <1>3, <2>2, StoreWritten
    <3> QED BY <1>6, <2>2, <3>1 DEF Good
  <2>3. CASE darwin /\ DeleteKey(p)
    BY <1>3, <2>3 DEF DeleteKey, Good
  <2>4. CASE DeleteFile(p) /\ darwin
    <3>1. UNCHANGED <<keychain[q], latest[q]>>
      BY <1>3, <2>4 DEF DeleteFile
    <3> QED BY <1>2, <1>3, <3>1 DEF Good
  <2>5. CASE UNCHANGED latest[q] /\ ~SaveKey(p) /\ ~DeleteKey(p)
    <3>1. keychain'[q] = keychain[q]
      <4>1. CASE KeepsStores(p) \/ WritesFile(p)
        BY <4>1, Frames
      <4>2. CASE SweepKey(p)
        BY <1>3, <4>2, StoreWritten
      <4> QED BY <2>5, <4>1, <4>2 DEF ProcStep, WritesKey
    <3> QED BY <1>2, <1>3, <2>5, <3>1 DEF Good
  <2>6. ~(Lands(p) /\ darwin)
    BY <1>2, Landed
  <2> QED BY <1>7, <2>1, <2>2, <2>3, <2>4, <2>5, <2>6
<1>9. files'[q] = Empty \/ Good(q, files[q])'
  <2>1. CASE SaveToFile(p)
    BY <1>3, <2>1, StoreWritten
  <2>2. CASE Lands(p)
    <3>1. files'[q] = t
      BY <1>3, <2>2, Landed
    <3> QED BY <1>6, <2>2, <3>1 DEF Good
  <2>3. CASE DeleteFile(p)
    BY <1>3, <2>3, StoreWritten DEF Good
  <2>4. CASE WritesKey(p) /\ darwin
    <3>1. files'[q] = None
      BY <1>2, <1>3, <2>4, Frames
    <3> QED BY <3>1 DEF Good
  <2>5. CASE UNCHANGED latest[q] /\ ~SaveToFile(p) /\ ~DeleteFile(p)
               /\ ~Lands(p)
    <3>1. files'[q] = files[q]
      <4>1. CASE KeepsStores(p) \/ WritesKey(p)
        BY <4>1, Frames
      <4>2. CASE WriteFails(p)
        BY <4>2 DEF WriteFails, store
      <4>3. CASE SweepFile(p) \/ Drops(p)
        BY <1>3, <4>3, Landed, StoreWritten
      <4> QED BY <2>5, <4>1, <4>2, <4>3, Landed DEF ProcStep, WritesFile
    <3> QED BY <1>2, <1>3, <2>5, <3>1 DEF Good
  <2>6. CASE DeleteKey(p) /\ ~darwin
    <3>1. UNCHANGED latest[q]
      BY <1>3, <2>6 DEF DeleteKey
    <3> QED BY <2>1, <2>2, <2>3, <2>5, <3>1
  <2>7. SaveKey(p) => darwin
    BY DEF SaveKey
  <2> QED BY <1>7, <2>1, <2>2, <2>3, <2>4, <2>5, <2>6, <2>7 DEF WritesKey
<1>10. ASSUME NEW x \in Profile, files'[x] = Empty
       PROVE  (halfWritten \/ BeingWritten(x))'
  <2>1. CASE SaveToFile(p) /\ x = q
    BY <2>1, StoreWritten DEF BeingWritten, At
  <2>2. CASE files[x] = Empty
    BY <1>2, <1>10, <2>2, EmptyStays
  <2>3. CASE Lands(p) /\ x = q
    <3>1. files'[x] = t
      BY <1>3, <2>3, Landed
    <3>2. t # Empty
      BY <1>3, <2>3, Landed DEF Placed, At, AnyToken
    <3> QED BY <1>10, <3>1, <3>2
  <2>4. CASE x # q
    BY <1>10, <2>2, <2>4, OtherProfiles
  <2>5. CASE /\ x = q /\ ~SaveToFile(p)
             /\ ~Lands(p)
    <3>1. files'[q] \in {files[q], None}
      <4>1. CASE KeepsStores(p) \/ WritesKey(p)
        BY <4>1, Frames
      <4>2. CASE WriteFails(p)
        BY <4>2 DEF WriteFails, store
      <4>3. CASE SweepFile(p) \/ DeleteFile(p)
                   \/ Drops(p)
        BY <1>3, <4>3, Landed, StoreWritten
      <4> QED BY <2>5, <4>1, <4>2, <4>3, Landed DEF ProcStep, WritesFile
    <3> QED BY <1>10, <2>2, <2>5, <3>1
  <2> QED BY <2>1, <2>3, <2>4, <2>5
<1>11. darwin => \A o \in Proc : proc'[o].pc # "write"
  <2> SUFFICES ASSUME darwin, NEW o \in Proc, proc'[o].pc = "write"
               PROVE  FALSE
    OBVIOUS
  <2>1. o = p
    BY <1>2, OthersStay DEF Alike, At
  <2>2. ~KeepsStores(p)
    BY <2>1, KeptStores
  <2>3. ~WriteFails(p) /\ ~WriteToken(p)
    BY <1>2 DEF WriteFails, WriteToken
  <2> QED
    BY <1>5, <2>1, <2>2, <2>3, StoreWritten
       DEF ProcStep, WritesKey, WritesFile
<1>12. darwin => \A x \in Profile : files'[x] = None
  <2> SUFFICES ASSUME darwin, NEW x \in Profile
               PROVE  files'[x] = None
    OBVIOUS
  <2>1. CASE KeepsStores(p) \/ WritesKey(p)
    BY <1>2, <2>1, Frames
  <2>2. CASE SweepFile(p) \/ DeleteFile(p)
    BY <1>2, <1>3, <2>2, StoreWritten
  <2>3. ~WriteFails(p) /\ ~WriteToken(p)
    BY <1>2 DEF WriteFails, WriteToken
  <2> QED BY <1>5, <2>1, <2>2, <2>3 DEF ProcStep, WritesFile
<1>13. \A x \in Profile \ {q} :
         /\ Good(x, keychain[x])'
         /\ files'[x] = Empty \/ Good(x, files[x])'
  BY <1>2, OtherProfiles DEF Good
<1>14. \A x \in Profile :
         /\ Good(x, keychain[x])'
         /\ files'[x] = Empty \/ Good(x, files[x])'
  BY <1>3, <1>8, <1>9, <1>13
<1> QED BY <1>4, <1>10, <1>11, <1>12, <1>14 DEF LoadInv, At

---------------------------------------------------------------------------
(* Theorems                                                                *)

(* At first nothing is registered, and the legacy token is in its place.   *)
LEMMA InitInv == Init => TypeInv /\ RegistryInv /\ LegacyInv /\ LoadInv
<1> SUFFICES ASSUME Init
             PROVE  TypeInv /\ RegistryInv /\ LegacyInv /\ LoadInv
  OBVIOUS
<1>1. /\ Default \in Profile /\ Profile \subseteq Slot /\ Legacy \in Slot
      /\ Legacy \notin Profile /\ LegacyToken \in AnyToken
      /\ None # LegacyToken
  BY DEF Slot, AnyToken
<1>2. NoConfig \in Config /\ Whole(NoConfig) \in Text
  BY DEF NoConfig, Config, Whole, Text
<1>3. \A p \in Proc : proc[p] = Idle /\ Placed(proc[p]) /\ proc[p] \in Process
  BY IdlePlaced DEF Init
<1>4. \A p \in Proc : proc[p].pc = "idle"
  BY <1>3 DEF Idle
<1>5. File = Whole(NoConfig) /\ Readable /\ Stored = NoConfig
  BY DEF Init, File, Readable, Stored, Whole
<1>6. AllPlaced
  BY <1>3 DEF AllPlaced, Init
<1>7. /\ keychain \in [Slot -> AnyToken \cup {None}]
      /\ files \in [Slot -> AnyToken \cup {None, Empty}]
      /\ \A q \in Profile : keychain[q] = None /\ files[q] = None
      /\ keychain[Legacy] \in {None, LegacyToken}
      /\ files[Legacy] \in {None, LegacyToken}
      /\ LegacyToken \in {keychain[Legacy], files[Legacy]}
      /\ ~darwin => \A s \in Slot : keychain[s] = None
  <2>1. PICK inKeychain \in {FALSE, darwin} :
          /\ keychain = [s \in Slot |->
                           IF s = Legacy /\ inKeychain THEN LegacyToken
                                                       ELSE None]
          /\ files = [s \in Slot |->
                        IF s = Legacy /\ ~inKeychain THEN LegacyToken
                                                     ELSE None]
    BY DEF Init
  <2>2. darwin \in BOOLEAN
    BY DEF Init
  <2>3. CASE inKeychain
    BY <1>1, <2>1, <2>2, <2>3
  <2>4. CASE ~inKeychain
    BY <1>1, <2>1, <2>4
  <2> QED BY <2>3, <2>4
<1>8. TypeOK
  BY <1>2, <1>3, <1>7 DEF TypeOK, Process, Init
<1>9. TypeInv
  BY <1>6, <1>7, <1>8 DEF TypeInv, PathsApart, LegacySlot, Init
<1>10. RegistryInv
  BY <1>4, <1>5
     DEF RegistryInv, Alone, Current, Writes, Consistent, Updating, At,
         NoConfig, Init
<1>11. LegacyInv
  BY <1>4, <1>7 DEF LegacyInv, At
<1>12. LoadInv
  BY <1>4, <1>7 DEF LoadInv, Good, At
<1> QED BY <1>9, <1>10, <1>11, <1>12

(* The invariant of the credentials and profiles.                          *)
ProfilesInv == TypeInv /\ RegistryInv /\ LegacyInv /\ LoadInv

(* Every step of every command keeps it: each process is where its command *)
(* can be; until two updates overlap config.json.tmp belongs to the one    *)
(* that writes it and config.json is what the commands made of it; until   *)
(* the user imports into or removes the default profile its slot has, or   *)
(* is being given, the legacy token before that is swept; and until the    *)
(* keychain refuses a call a profile has the token imported last.          *)
THEOREM ProfilesInvariant == Spec => []ProfilesInv
<1>1. Init => ProfilesInv
  BY InitInv DEF ProfilesInv
<1>2. ProfilesInv /\ [Next]_vars => ProfilesInv'
  BY TypeStep, RegistryStep, LegacyStep, LoadStep DEF ProfilesInv
<1> QED BY <1>1, <1>2, PTL DEF Spec

(* A slot holds a token, nothing or a file cut short, a path and an open   *)
(* file is an inode, and every process is somewhere in its command.        *)
THEOREM TypeCorrect == Spec => []TypeOK
<1>1. ProfilesInv => TypeOK
  BY DEF ProfilesInv, TypeInv
<1> QED BY <1>1, ProfilesInvariant, PTL

(* SaveGlobalConfig's temporary file and rename keep config.json whole and *)
(* true to the commands, whichever of them are interrupted and wherever,   *)
(* as long as no two updates of it overlap.                                *)
THEOREM RegistryStaysIntact == Spec => []RegistryIntact
<1>1. ProfilesInv => RegistryIntact
  BY DEF ProfilesInv, RegistryInv, Consistent, RegistryIntact
<1> QED BY <1>1, ProfilesInvariant, PTL

(* The token of an install without profiles is never lost by its adoption, *)
(* however many commands adopt it at once and wherever they are            *)
(* interrupted but half way through the token file.                        *)
THEOREM LegacyTokenKept == Spec => []LegacyKept
<1>1. ASSUME TypeInv, LegacyInv
      PROVE  LegacyKept
  <2>1. Default \in Slot /\ Legacy \in Slot
    BY DEF Slot
  <2> QED BY <1>1, <2>1 DEF LegacyInv, Adopted, LegacyKept
<1> QED BY <1>1, ProfilesInvariant, PTL DEF ProfilesInv

(* What a process takes from a store it goes on with.                      *)
LEMMA FoundToken ==
  ASSUME TypeInv, NEW p \in Proc, NEW t, Found(p, t)
  PROVE  proc'[p].token = t
<1>1. proc[p] \in Process
  BY DEF TypeInv, AllPlaced
<1>2. \E l \in {"save", "whoami", "use"} :
        Become(p, [proc[p] EXCEPT !.pc = l, !.token = t])
  <2>1. CASE proc[p].slot = Legacy
    BY <2>1 DEF Found, Become
  <2>2. CASE proc[p].slot # Legacy /\ proc[p].cmd = "list"
    BY <2>2 DEF Found, Become
  <2>3. CASE proc[p].slot # Legacy /\ proc[p].cmd # "list"
    BY <2>3 DEF Found, Become
  <2> QED BY <2>1, <2>2, <2>3
<1>3. \A l : [proc[p] EXCEPT !.pc = l, !.token = t].token = t
  BY <1>1 DEF Process
<1> QED BY <1>2, <1>3, Became

(* A process that looks for a token finds what a store has in its slot.    *)
LEMMA Loaded ==
  ASSUME TypeInv, NEW p \in Proc, ProcStep(p),
         proc[p].pc \in {"loadKey", "loadFile"}, proc'[p].token # None
  PROVE  proc'[p].token \in {keychain[proc[p].slot], files[proc[p].slot]}
<1>1. proc[p] \in Process /\ Placed(proc[p])
  BY DEF TypeInv, AllPlaced
<1>2. proc[p].token = None
  BY <1>1 DEF Placed
<1>3. ~Finish(p) /\ ~Goto(p, "loadFile")
  BY <1>2, Finished, Gone DEF Idle
<1>4. LoadKey(p) \/ LoadFile(p)
  BY <1>3 DEF ProcStep, KeepsStores, WritesKey, WritesFile, Start, WhoAmI,
     UseToken, ReadConfig, OpenTmp, PutConfig, Rename, Crash, SaveKey,
     SweepKey, DeleteKey, SaveToFile, WriteToken, WriteFails, SweepFile,
     DeleteFile, At
<1>5. CASE LoadKey(p)
  BY <1>3, <1>5, FoundToken DEF LoadKey
<1>6. CASE LoadFile(p)
  <2>1. ~Become(p, [proc[p] EXCEPT !.pc = "loadKey", !.slot = Legacy])
    BY <1>1, <1>2, Became DEF Process
  <2> QED BY <1>3, <1>6, <2>1, FoundToken DEF LoadFile
<1> QED BY <1>4, <1>5, <1>6

(* A command never goes on with another profile's token or an older one    *)
(* than was imported last, unless the keychain refused a call, nor with an *)
(* empty one unless its file is being written or was cut short.            *)
THEOREM TokensLoadedAreTheLatest == Spec => LoadsTheLatest
<1> DEFINE Latest(p) ==
             LET q == proc[p].profile
                 t == proc'[p].token
             IN proc[p].pc \in {"loadKey", "loadFile"} /\ t # None =>
                  \/ refused'
                  \/ t = latest[q]
                  \/ q = Default /\ t = LegacyToken
                  \/ t = Empty /\ halfWritten
                  \/ /\ t = Empty
                     /\ \E o \in Proc : At(o, "write") /\ proc[o].profile = q
<1>1. ASSUME ProfilesInv, [Next]_vars, NEW p \in Proc
      PROVE  Latest(p) \/ UNCHANGED vars
  <2> SUFFICES ASSUME proc[p].pc \in {"loadKey", "loadFile"},
                      proc'[p].token # None, ~refused',
                      NEW o \in Proc, ProcStep(o)
               PROVE  Latest(p)
    BY <1>1 DEF Next, ProcStep, KeepsStores, WritesKey, WritesFile
  <2>1. TypeInv /\ proc[p] \in Process /\ Placed(proc[p])
    BY <1>1 DEF ProfilesInv, TypeInv, AllPlaced
  <2>2. o = p
    BY <2>1, OthersStay DEF Placed, Alike
  <2>3. proc'[p].token \in {keychain[proc[p].slot], files[proc[p].slot]}
    BY <2>1, <2>2, Loaded
  <2>4. CASE proc[p].slot = Legacy
    BY <2>1, <2>3, <2>4 DEF Placed, TypeInv, LegacySlot
  <2>5. CASE proc[p].slot = proc[p].profile
    <3>1. ~refused
      BY LoadMonotone
    <3>2. proc[p].profile \in Profile
      BY <2>1 DEF Process
    <3> QED
      BY <1>1, <2>3, <2>5, <3>1, <3>2
         DEF ProfilesInv, LoadInv, Good, BeingWritten
  <2> QED BY <2>1, <2>4, <2>5 DEF Placed
<1>2. ProfilesInv /\ [Next]_vars => [\A p \in Proc : Latest(p)]_vars
  BY <1>1
<1> QED BY <1>2, ProfilesInvariant, PTL DEF Spec, LoadsTheLatest

=============================================================================
