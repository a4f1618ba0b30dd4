---------------------------- MODULE ApiKeyStore ----------------------------
(***************************************************************************)
(* engine/api/auth/store.py as two programs use it: the server, whose      *)
(* middleware (engine/api/app.py) looks a key up for each request, and the *)
(* `cond api-key` commands (cli/cond.py), each of which loads the file,    *)
(* changes one entry, writes the one temporary file and renames it.        *)
(* Commands may overlap each other and the server, which notices a change  *)
(* by the file's modification time.  Modification times are assumed to     *)
(* differ, and a command to reach its end.                                 *)
(***************************************************************************)
EXTENDS Integers, FiniteSets

CONSTANTS
    ApiKeys,     \* keys that may be generated
    Commands,    \* processes that run `cond api-key`, one command after another
    NoKey,       \* no request in progress
    MaxWrites,   \* bound: commands that change the file
    MaxLookups   \* bound: requests

VARIABLES
    keyFile,     \* [ApiKeys -> "absent", "active" or "revoked"]: the JSON file
    usedFile,    \* keys with a last_used_at in the file
    mtime,       \* its modification time; 0: there is no file
    tmp,         \* the temporary file: [entries, used], or NoKey if there is none
    cli,         \* [Commands -> [step, op, key, entries, used]]: the store of each command;
                 \* step is "none", "loaded" or "written"
    server,      \* "down" or "up"
    entries,     \* _entries of the server
    used,        \* keys with a last_used_at in _entries
    lastMtime,   \* _last_mtime
    dirty,       \* _dirty
    phase,       \* the request: "none", "stat", "load" or "find"
    asked,       \* its key
    statMtime,   \* current_mtime, as stat returned it
    lookups,     \* requests so far
    began,       \* keyFile when the request began (history)
    changed,     \* the file was replaced since then (history)
    keyAnswer       \* "none", "open", "accepted" or "refused" (history)

keyVars == <<keyFile, usedFile, mtime, tmp, cli, server, entries, used, lastMtime, dirty, phase,
          asked, statMtime, lookups, began, changed, keyAnswer>>
fileVars == <<keyFile, usedFile, mtime, tmp>>
memoryVars == <<entries, used, lastMtime, dirty>>
requestVars == <<phase, asked, statMtime, lookups, began, keyAnswer>>

NoEntries == [k \in ApiKeys |-> "absent"]
NoCommand ==
    [step |-> "none", op |-> "none", key |-> NoKey, entries |-> NoEntries, used |-> {}]

KeysInit ==
    /\ keyFile = NoEntries /\ usedFile = {} /\ mtime = 0
    /\ tmp = NoKey /\ cli = [c \in Commands |-> NoCommand]
    /\ server = "down"
    /\ entries = NoEntries /\ used = {} /\ lastMtime = 0 /\ dirty = FALSE
    /\ phase = "none" /\ asked = NoKey /\ statMtime = 0 /\ lookups = 0
    /\ began = NoEntries /\ changed = FALSE /\ keyAnswer = "none"

(* _save, its second half: the temporary file takes the place of the old    *)
(* one.                                                                     *)
Replace(contents, stamps) ==
    /\ keyFile' = contents
    /\ usedFile' = stamps
    /\ mtime' = mtime + 1
    /\ tmp' = NoKey
    /\ changed' = TRUE

(* `cond api-key generate` or `revoke`: load_api_key_store.  Revoking a key *)
(* that is not there prints an error; a generated key is new.               *)
CliLoad(c, op, k) ==
    /\ cli[c].step = "none" /\ mtime < MaxWrites
    /\ op = "generate" <=> keyFile[k] = "absent"
    /\ \A d \in Commands : cli[d].key # k \/ cli[d].op # "generate"
    /\ cli' = [cli EXCEPT ![c] = [step |-> "loaded", op |-> op, key |-> k,
                                  entries |-> keyFile, used |-> usedFile]]
    /\ UNCHANGED <<server, changed>>
    /\ UNCHANGED fileVars /\ UNCHANGED memoryVars /\ UNCHANGED requestVars

(* The changed entry, and _save up to the temporary file, which all         *)
(* commands share.                                                          *)
CliWrite(c, op, state) ==
    /\ cli[c].step = "loaded" /\ cli[c].op = op
    /\ LET contents == [cli[c].entries EXCEPT ![cli[c].key] = state] IN
       /\ tmp' = [entries |-> contents, used |-> cli[c].used]
       /\ cli' = [cli EXCEPT ![c].step = "written", ![c].entries = contents]
    /\ UNCHANGED <<keyFile, usedFile, mtime, server, changed>>
    /\ UNCHANGED memoryVars /\ UNCHANGED requestVars

Generate(c) == CliWrite(c, "generate", "active")

Revoke(c) == CliWrite(c, "revoke", "revoked")

(* The rename installs whatever was written last; if another command has    *)
(* renamed it already, FileNotFoundError ends this one.                     *)
CliReplace(c) ==
    /\ cli[c].step = "written"
    /\ IF tmp = NoKey THEN UNCHANGED fileVars /\ UNCHANGED changed
       ELSE Replace(tmp.entries, tmp.used)
    /\ cli' = [cli EXCEPT ![c] = NoCommand]
    /\ UNCHANGED server /\ UNCHANGED memoryVars /\ UNCHANGED requestVars

(* _load; a missing file has no entries. *)
LoadFile == entries' = keyFile /\ used' = usedFile

(* ApiKeyStore(path) in a new server process. *)
ServerStart ==
    /\ server = "down"
    /\ server' = "up"
    /\ LoadFile /\ lastMtime' = 0 /\ dirty' = FALSE
    /\ UNCHANGED <<cli, changed>> /\ UNCHANGED fileVars /\ UNCHANGED requestVars

FlushUsage == IF dirty THEN Replace(entries, used) ELSE UNCHANGED fileVars /\ UNCHANGED changed

(* End of the lifespan. *)
ServerStop ==
    /\ server = "up" /\ phase = "none"
    /\ server' = "down"
    /\ FlushUsage
    /\ entries' = NoEntries /\ used' = {} /\ lastMtime' = 0 /\ dirty' = FALSE
    /\ UNCHANGED cli /\ UNCHANGED requestVars

ServerKilled ==
    /\ server = "up"
    /\ server' = "down"
    /\ entries' = NoEntries /\ used' = {} /\ lastMtime' = 0 /\ dirty' = FALSE
    /\ phase' = "none" /\ asked' = NoKey /\ keyAnswer' = "none"
    /\ UNCHANGED <<cli, statMtime, lookups, began, changed>> /\ UNCHANGED fileVars

AuthEnabled == \E k \in ApiKeys : entries[k] = "active"

(* AuthMiddleware.dispatch: without an active key in memory every request   *)
(* passes, and nothing looks at the file; a request without a Bearer header *)
(* is refused without a lookup.  There is no await before the answer, so    *)
(* the server handles one request at a time.                                *)
Dispatch(k) ==
    /\ server = "up" /\ phase = "none" /\ lookups < MaxLookups
    /\ lookups' = lookups + 1
    /\ asked' = k /\ began' = keyFile /\ changed' = FALSE
    /\ IF AuthEnabled
       THEN phase' = "stat" /\ keyAnswer' = "none"
       ELSE phase' = "none" /\ keyAnswer' = "open"
    /\ UNCHANGED <<cli, server, statMtime>> /\ UNCHANGED fileVars /\ UNCHANGED memoryVars

(* _reload_if_changed: stat. *)
Stat ==
    /\ phase = "stat"
    /\ statMtime' = mtime
    /\ phase' = "load"
    /\ UNCHANGED <<cli, server, asked, lookups, began, changed, keyAnswer>>
    /\ UNCHANGED fileVars /\ UNCHANGED memoryVars

(* Mutation: the first lookup takes the time it sees as the one loaded.     *)
ReloadAfterFirst ==
    /\ phase = "load"
    /\ phase' = "find"
    /\ IF statMtime > lastMtime
       THEN /\ IF lastMtime = 0 THEN UNCHANGED <<entries, used>>
               ELSE LoadFile
            /\ lastMtime' = statMtime
       ELSE UNCHANGED <<entries, used, lastMtime>>
    /\ UNCHANGED <<cli, server, dirty, asked, statMtime, lookups, began, changed, keyAnswer>>
    /\ UNCHANGED fileVars

(* _load if the time is newer; the file may have been replaced since stat. *)
Reload ==
    /\ phase = "load"
    /\ phase' = "find"
    /\ IF statMtime > lastMtime
       THEN LoadFile /\ lastMtime' = statMtime
       ELSE UNCHANGED <<entries, used, lastMtime>>
    /\ UNCHANGED <<cli, server, dirty, asked, statMtime, lookups, began, changed, keyAnswer>>
    /\ UNCHANGED fileVars

(* Mutation: a lookup marks the store as changed. *)
FindMarkingDirty ==
    /\ phase = "find"
    /\ phase' = "none"
    /\ keyAnswer' = IF entries[asked] = "active" THEN "accepted" ELSE "refused"
    /\ used' = IF entries[asked] = "active" THEN used \cup {asked} ELSE used
    /\ dirty' = TRUE
    /\ UNCHANGED <<cli, server, entries, lastMtime, asked, statMtime, lookups, began, changed>>
    /\ UNCHANGED fileVars

(* The entry of the key: unknown or revoked answers 401; else last_used_at  *)
(* is set in memory only.                                                   *)
Find ==
    /\ phase = "find"
    /\ phase' = "none"
    /\ keyAnswer' = IF entries[asked] = "active" THEN "accepted" ELSE "refused"
    /\ used' = IF entries[asked] = "active" THEN used \cup {asked} ELSE used
    /\ UNCHANGED <<cli, server, entries, lastMtime, dirty, asked, statMtime, lookups, began, changed>>
    /\ UNCHANGED fileVars

KeysNext ==
    \/ \E k \in ApiKeys : Dispatch(k)
    \/ \E c \in Commands : \/ \E k \in ApiKeys, op \in {"generate", "revoke"} : CliLoad(c, op, k)
                           \/ Generate(c) \/ Revoke(c) \/ CliReplace(c)
    \/ ServerStart \/ ServerStop \/ ServerKilled
    \/ Stat \/ Reload \/ Find

KeysSpec == KeysInit /\ [][KeysNext]_keyVars

-----------------------------------------------------------------------------
(* "so that cond api-key revoke from another process is reflected without a *)
(* server restart": the answer of a lookup agrees with the file as it was   *)
(* when the request began, or the file was replaced while the request was   *)
(* handled.  And a request passes without a key only if the file had no     *)
(* active key then, or the server has not loaded that file: nothing but a   *)
(* lookup loads it, so a server that began in open mode stays there.        *)
LookupReflectsFile ==
    ~changed =>
        /\ keyAnswer \in {"accepted", "refused"} => (keyAnswer = "accepted" <=> began[asked] = "active")
        /\ keyAnswer = "open" /\ lastMtime = mtime => \A k \in ApiKeys : began[k] # "active"

(* A command under way that loaded the file before k was revoked in it, or  *)
(* has written such a copy.                                                 *)
OldCopy(k) == \E c \in Commands : cli[c].step # "none" /\ cli[c].entries[k] # "revoked"

KeepsRevocations ==
    \A k \in ApiKeys : keyFile[k] = "revoked" /\ ~OldCopy(k) => keyFile'[k] = "revoked"

(* A saved revocation is undone only by commands that overlapped it: once   *)
(* no command holds an older copy of the file, no later command, whichever  *)
(* temporary file it installs, and no server that kept an older copy since  *)
(* it started brings the key back.                                          *)
RevocationStays == [][KeepsRevocations]_keyVars
=============================================================================
