--------------------------- MODULE ProfilesSafety ---------------------------
(* What the token store and the registry promise the user.                 *)
EXTENDS Profiles

(* Every slot holds a token, nothing or a file cut short; every path and   *)
(* open file an inode; every process is somewhere in its command.          *)
TypeOK ==
  /\ keychain \in [Slot -> AnyToken \cup {None}]
  /\ files \in [Slot -> AnyToken \cup {None, Empty}]
  /\ content \in [Inode -> Text]
  /\ configFile \in Inode \cup {None} /\ tmpFile \in Inode \cup {None}
  /\ \A p \in Proc :
       /\ proc[p].cmd \in Command
       /\ proc[p].profile \in Profile /\ proc[p].slot \in Slot
       /\ proc[p].token \in AnyToken \cup {None, Empty}
       /\ proc[p].cfg \in Config /\ proc[p].fd \in Inode \cup {None}

(* config.json can be parsed, lists exactly the profiles that were         *)
(* registered and not removed, and its active profile is one of them,      *)
(* whatever is interrupted (SaveGlobalConfig's file and rename), as long   *)
(* as no two updates overlapped: the two then share config.json.tmp.       *)
RegistryIntact ==
  \/ raced
  \/ /\ Readable
     /\ Stored.profiles = registered
     /\ Stored.active \in registered \cup {None}

(* The token an install without profiles left behind stays in some store   *)
(* until the user imports into or removes the default profile, however     *)
(* its adoption by several commands is interrupted, except that a process  *)
(* stopped half way through a token file may take it along.                *)
LegacyKept ==
  \/ touched \/ halfWritten
  \/ \E s \in Slot : LegacyToken \in {keychain[s], files[s]}
  \/ \E p \in Proc : At(p, "write") /\ proc[p].token = LegacyToken

(* A command loads the token imported last into its own profile, or for    *)
(* the default one the legacy token, never an older one or another         *)
(* profile's, unless the keychain refused a call; it goes on with an empty *)
(* token only while the file is written or after that was interrupted.     *)
LoadsTheLatest ==
  [][\A p \in Proc :
       LET q == proc[p].profile
           t == proc'[p].token
       IN proc[p].pc \in {"loadKey", "loadFile"} /\ t # None =>
            \/ refused'
            \/ t = latest[q]
            \/ q = Default /\ t = LegacyToken
            \/ t = Empty /\ halfWritten
            \/ /\ t = Empty
               /\ \E o \in Proc : At(o, "write") /\ proc[o].profile = q]_vars

=============================================================================
