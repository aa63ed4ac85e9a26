----------------------------- MODULE ConfigFiles -----------------------------
(* ConfigStore: config.json and credentials.json in one directory, the layout *)
(* manifest next to it, and the process-wide cache of parsed stores keyed     *)
(* by the modification time and size (the stamp) of config.json.  The threads *)
(* of one process load stores, edit them in place and save them.  A           *)
(* configuration is a revision of its settings and the API key of its one     *)
(* provider; revision 0, the default, has no provider.                        *)
EXTENDS Naturals, FiniteSets

CONSTANTS
    User,        \* threads of the process
    Object,      \* ConfigStore instances
    NoObject,
    Secret,      \* API keys
    NoSecret,
    MaxEdits,    \* bound on the edits of settings
    MaxSaves,    \* bound on the saves, and so on the stamps
    Faulty       \* whether disks refuse writes and processes are killed

VARIABLES
    config,      \* config.json: settings, inline key and stamp; stamp 0: no file
    creds,       \* the key in credentials.json
    layout,      \* layout version in manifest.json; 0: no file
    cache,       \* ConfigStore._cache
    object,      \* what each store holds
    user,        \* where each thread is
    saves,
    saved,       \* the configuration last saved undisturbed, if the files still are its
    asked        \* what the files held at first, and what saves were called with

configVars == <<config, creds, layout, cache, object, user, saves, saved, asked>>

LAYOUT_VERSION == 1
Keys == Secret \cup {NoSecret}
Default == [rev |-> 0, key |-> NoSecret]
NoFile == [rev |-> 0, key |-> NoSecret, stamp |-> 0]
NoCache == [stamp |-> 0, obj |-> NoObject, raced |-> FALSE]
Nobody == [rev |-> 0, key |-> NoSecret, edited |-> FALSE]
AtRest == [pc |-> "idle", obj |-> NoObject, stamp |-> 0, raw |-> Default, raced |-> FALSE]

ASSUME ConfigAssumption ==
    /\ NoObject \notin Object /\ NoSecret \notin Secret
    /\ IsFiniteSet(User) /\ IsFiniteSet(Object) /\ Cardinality(Object) > Cardinality(User)
    /\ MaxEdits \in Nat /\ MaxSaves \in Nat /\ Faulty \in BOOLEAN

\* An inline key wins over credentials.json, whose keys of unknown providers are ignored.
MergeCredentials(raw, side) ==
    [rev |-> raw.rev,
     key |-> IF raw.rev = 0 THEN NoSecret ELSE IF raw.key # NoSecret THEN raw.key ELSE side]

\* What a store built now would hold.
FreshRead == IF config.stamp = 0 THEN Default ELSE MergeCredentials(config, creds)

ConfigInit ==
    /\ \/ config = NoFile /\ creds = NoSecret /\ layout = 0
       \/ /\ \E k \in Secret : config = [rev |-> 1, key |-> k, stamp |-> 1]   \* a legacy single file
          /\ creds = NoSecret /\ layout = 0
       \/ /\ config = [rev |-> 1, key |-> NoSecret, stamp |-> 1]
          /\ creds \in Keys /\ layout = LAYOUT_VERSION
    /\ cache = NoCache
    /\ object = [o \in Object |-> Nobody]
    /\ user = [t \in User |-> AtRest]
    /\ saves = 0 /\ saved = Default /\ asked = {FreshRead}

Settings(o) == [rev |-> object[o].rev, key |-> object[o].key]

Unused(o) == cache.obj # o /\ \A t \in User : user[t].obj # o

\* A store that nothing refers to is gone.
Collected(us, c) ==
    [o \in Object |-> IF c.obj = o \/ \E t \in User : us[t].obj = o THEN object[o] ELSE Nobody]

\* The thread is done and holds its store.
Holding(t) == [AtRest EXCEPT !.obj = user[t].obj]

Loading == {"creds", "built", "insert"}
Saving  == {"secrets", "finish"}

-----------------------------------------------------------------------------
(* ConfigStore.load *)

\* The thread stats config.json; an earlier store is dropped.
StatStamp(t) ==
    /\ user[t].pc = "idle"
    /\ user' = [user EXCEPT ![t] = [AtRest EXCEPT !.pc = IF config.stamp = 0 THEN "build" ELSE "lookup",
                                                !.stamp = config.stamp]]
    /\ object' = Collected(user', cache)
    /\ UNCHANGED <<config, creds, layout, cache, saves, saved, asked>>

\* Under _cache_lock: an entry with that stamp is returned as it is.
LookUp(t) ==
    /\ user[t].pc = "lookup"
    /\ user' = [user EXCEPT ![t] = IF cache.obj # NoObject /\ cache.stamp = @.stamp
                                     THEN [AtRest EXCEPT !.obj = cache.obj]
                                     ELSE [AtRest EXCEPT !.pc = "build"]]
    /\ UNCHANGED <<config, creds, layout, cache, object, saves, saved, asked>>

\* A layout of a later release is refused; without a file there are the defaults.
LoadOrDefault(t) ==
    /\ user[t].pc = "build"
    /\ \/ layout > LAYOUT_VERSION /\ user' = [user EXCEPT ![t] = AtRest] /\ UNCHANGED object
       \/ /\ layout <= LAYOUT_VERSION
          /\ LET o == CHOOSE x \in Object : Unused(x) IN
             /\ object' = [object EXCEPT ![o] = Nobody]
             /\ user' = [user EXCEPT ![t] = [@ EXCEPT
                    !.pc = IF config.stamp = 0 THEN "built" ELSE "creds",
                    !.obj = o, !.raw = [rev |-> config.rev, key |-> config.key]]]
    /\ UNCHANGED <<config, creds, layout, cache, saves, saved, asked>>

ReadCredentials(t) ==
    /\ user[t].pc = "creds"
    /\ LET data == MergeCredentials(user[t].raw, creds) IN
       object' = [object EXCEPT ![user[t].obj] = [@ EXCEPT !.rev = data.rev, !.key = data.key]]
    /\ user' = [user EXCEPT ![t] = [@ EXCEPT !.pc = "built", !.raw = Default]]
    /\ UNCHANGED <<config, creds, layout, cache, saves, saved, asked>>

\* The stamp is sampled again after the load.
PostStamp(t) ==
    /\ user[t].pc = "built"
    /\ user' = [user EXCEPT ![t] = IF config.stamp = 0 THEN Holding(t)
                                   ELSE [@ EXCEPT !.pc = "insert", !.stamp = config.stamp]]
    /\ UNCHANGED <<config, creds, layout, cache, object, saves, saved, asked>>

CacheInsert(t) ==
    /\ user[t].pc = "insert"
    /\ cache' = [stamp |-> user[t].stamp, obj |-> user[t].obj, raced |-> user[t].raced]
    /\ user' = [user EXCEPT ![t] = Holding(t)]
    /\ object' = Collected(user', cache')
    /\ UNCHANGED <<config, creds, layout, saves, saved, asked>>

-----------------------------------------------------------------------------
(* Editing, and ConfigStore.save *)

Has(t) == user[t].pc = "idle" /\ user[t].obj # NoObject

\* A caller changes the settings or the key of the store it holds, cached or not.
Edit(t) ==
    /\ Has(t)
    /\ \E k \in Keys :
        /\ object[user[t].obj].rev < MaxEdits
        /\ object' = [object EXCEPT ![user[t].obj] = [rev |-> @.rev + 1, key |-> k, edited |-> TRUE]]
    /\ UNCHANGED <<config, creds, layout, cache, user, saves, saved, asked>>

\* The payload is made before the store's _save_lock is taken.
Save(t) ==
    /\ Has(t) /\ saves < MaxSaves
    /\ user' = [user EXCEPT ![t] = [@ EXCEPT !.pc = "save", !.raw = Settings(user[t].obj), !.raced = FALSE]]
    /\ saves' = saves + 1 /\ asked' = asked \cup {Settings(user[t].obj)}
    /\ UNCHANGED <<config, creds, layout, cache, object, saved>>

\* split_secrets: no key goes into config.json, every key into credentials.json.
SplitConfig(data) == [rev |-> data.rev, key |-> NoSecret]
SplitSecrets(data) == data.key

\* A write overtakes whoever is saving too, and a load that has read the file and will keep
\* what it read under the stamp the file has now.
Overtaken(x, reading, stamp) ==
    x.pc \in Saving \cup reading \/ (x.pc = "insert" /\ x.stamp = stamp)

Race(t, us, reading, stamp) ==
    [u \in User |-> [us[u] EXCEPT !.raced = @ \/ (u # t /\ Overtaken(us[u], reading, stamp))]]

\* The new file may have the stamp of the old one: a coarse clock and the same size.
WriteConfig(t) ==
    /\ user[t].pc = "save"
    /\ \A u \in User : user[u].pc \in Saving => user[u].obj # user[t].obj
    /\ \E s \in {config.stamp, MaxSaves + saves + 1} \ {0} :
        LET new == SplitConfig(user[t].raw) IN
        config' = [rev |-> new.rev, key |-> new.key, stamp |-> s]
    /\ user' = Race(t, [user EXCEPT ![t].pc = "secrets"], {"creds", "built"}, config'.stamp)
    /\ saved' = Default
    /\ UNCHANGED <<creds, layout, cache, object, saves, asked>>

\* Written, or unlinked when no key is left.
WriteSecrets(t) ==
    /\ user[t].pc = "secrets"
    /\ creds' = SplitSecrets(user[t].raw)
    /\ user' = Race(t, [user EXCEPT ![t].pc = "finish"], {"built"}, config.stamp)
    /\ saved' = Default
    /\ UNCHANGED <<config, layout, cache, object, saves, asked>>

\* The disk refuses one of the two: save raises before it reaches the cache.
SaveFails(t) ==
    /\ Faulty /\ user[t].pc \in {"save", "secrets"}
    /\ user' = [user EXCEPT ![t] = Holding(t)]
    /\ cache' = [cache EXCEPT !.raced = @ \/ user[t].pc = "secrets"]
    /\ UNCHANGED <<config, creds, layout, object, saves, saved, asked>>

\* The manifest of this release is written whatever was there.
EnsureManifest == layout' = LAYOUT_VERSION

Invalidate_Forgotten == UNCHANGED cache
Invalidate == cache' = NoCache

FinishSave(t) ==
    /\ user[t].pc = "finish"
    /\ EnsureManifest
    /\ Invalidate
    /\ saved' = IF user[t].raced THEN Default ELSE user[t].raw
    /\ user' = [user EXCEPT ![t] = Holding(t)]
    /\ object' = Collected(user', cache')
    /\ UNCHANGED <<config, creds, saves, asked>>

\* A later release takes the directory over.
NewerRelease ==
    /\ layout' = LAYOUT_VERSION + 1
    /\ UNCHANGED <<config, creds, cache, object, user, saves, saved, asked>>

\* The process is killed and started again; only the files stay.
Restart ==
    /\ Faulty /\ cache' = NoCache
    /\ object' = [o \in Object |-> Nobody]
    /\ user' = [t \in User |-> AtRest]
    /\ UNCHANGED <<config, creds, layout, saves, saved, asked>>

LoadStep(t) ==
    \/ StatStamp(t) \/ LookUp(t) \/ LoadOrDefault(t) \/ ReadCredentials(t)
    \/ PostStamp(t) \/ CacheInsert(t)

SaveStep(t) == WriteConfig(t) \/ WriteSecrets(t) \/ SaveFails(t) \/ FinishSave(t)

ConfigNext ==
    \/ \E t \in User : LoadStep(t) \/ Edit(t) \/ Save(t) \/ SaveStep(t)
    \/ NewerRelease \/ Restart

ConfigSpec == ConfigInit /\ [][ConfigNext]_configVars

-----------------------------------------------------------------------------
\* While nobody is saving, a cache entry that load() would return holds what the files
\* hold, whatever loads, saves and restarts went before and even if two saves left the same
\* stamp.  There are three exceptions: a file was written after the load had read it and
\* before the load took the stamp it kept (or later, without changing the stamp), a save
\* failed between the two files, and the store was edited in place since.  A load that a
\* save overtakes between its stamp and its entry is no exception: nobody gets that entry.
CacheIsFresh ==
    /\ cache.obj # NoObject /\ cache.stamp = config.stamp /\ ~cache.raced
    /\ ~object[cache.obj].edited
    /\ \A t \in User : user[t].pc \notin Saving
    => Settings(cache.obj) = FreshRead

\* What a save wrote that no other save's writes overlapped is read back, a removed key
\* included, until the next save.
SavedIsRead == saved # Default => FreshRead = saved

\* Config files: what can make the cache and the two files disagree.
ConfigIsKept == CacheIsFresh /\ SavedIsRead

\* config/store.py:116-118, "storing the post-load stamp is what makes the next cache hit
\* valid", and 78-79, "a save-then-load pair always re-reads from disk": while nobody is
\* saving, the entry load() would return, not edited since, holds what the files hold.
CacheHitsAreCurrent ==
    /\ cache.obj # NoObject /\ cache.stamp = config.stamp /\ ~object[cache.obj].edited
    /\ \A t \in User : user[t].pc \notin Saving
    => Settings(cache.obj) = FreshRead

\* config/store.py:146, "Atomically persist self.config", and 150-151, "safe under
\* concurrent writers": while nobody is saving, the files hold what they held at first or
\* what one save was called with, never the settings of one and the key of another.
SavesAreWhole == (\A t \in User : user[t].pc \notin Saving) => FreshRead \in asked
=============================================================================
