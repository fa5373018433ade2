---------------------------- MODULE FileCustody ----------------------------
(***************************************************************************)
(* What an apply, switch or revert promises about the user's files: it may *)
(* write and remove what it likes, but a text the user put at a path stays *)
(* there, or goes to a backup, until the user replaces it, removes it or   *)
(* hands it to a profile.                                                  *)
(***************************************************************************)
CONSTANTS Paths, Texts, Absent

VARIABLES
  content,   \* the text at each path, or Absent
  mine,      \* <<path, text>>: what the user put there and still counts on
  saved      \* <<path, text>>: backups

custodyVars == <<content, mine, saved>>

OnDisk(p) == {<<p, content[p]>>} \ {<<p, Absent>>}

Start == saved = {} /\ mine = UNION {OnDisk(p) : p \in Paths}

\* The user writes to a path or removes the file, and keeps what was written.
UserWrites(p) ==
  /\ \E x \in Texts \cup {Absent} : content' = [content EXCEPT ![p] = x]
  /\ mine' = (mine \ OnDisk(p)) \cup OnDisk(p)'
  /\ saved' = saved

\* The user saves a text to a profile, which may now write and remove it.
HandsOver(p) ==
  /\ mine' = mine \ OnDisk(p)
  /\ UNCHANGED <<content, saved>>

\* One step of the program, over any number of paths.
Manages ==
  /\ mine' = mine
  /\ saved \subseteq saved'
  /\ \A p \in Paths :
       <<p, content[p]>> \in mine =>
         content'[p] = content[p] \/ <<p, content[p]>> \in saved'

Acts == Manages \/ \E p \in Paths : UserWrites(p) \/ HandsOver(p)

Promise == Start /\ [][Acts]_custodyVars
=============================================================================
