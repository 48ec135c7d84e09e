----------------------------- MODULE UpdateCheck -----------------------------
(***************************************************************************)
(* The update check of `refresh version` (internal/updatecheck): a cache   *)
(* file says when GitHub was last asked and what it answered, and is       *)
(* written in place by any number of processes.                            *)
(***************************************************************************)
EXTENDS Integers, Sequences

CONSTANTS
    Terminals,      \* processes that may run `refresh version`
    Releases,       \* tags in the order of their publication
    Running,        \* the version of the binary
    CheckInterval,  \* the 24 hours, in ticks
    MaxClock,       \* bound: ticks
    MaxChecks       \* bound: commands started

NotSemver == <<>>   \* "dev", a pre-release, anything that is not vX.Y.Z
Tags == (Nat \X Nat \X Nat) \cup {NotSemver}

ASSUME UpdateCheckAssumption ==
    /\ Running \in Tags /\ Releases \in Seq(Tags) /\ Len(Releases) > 0
    /\ CheckInterval \in Nat \ {0} /\ MaxClock \in Nat /\ MaxChecks \in Nat

VARIABLES
    clock,
    published,  \* index of the newest release (external)
    checkFile,  \* what a reader finds in the cache file
    version,    \* process -> where its command stands
    found,      \* process -> the cache it read, then the one it writes
    answer,     \* process -> index of the tag it was given, 0 for none
    checks,     \* commands started
    asked,      \* times at which GitHub was asked (history)
    hints,      \* tags named as newer (history)
    disturbed   \* a call or write failed, a crash, two commands at once (history)

checkVars == <<clock, published, checkFile, version, found, answer, checks, asked,
               hints, disturbed>>

NoCache == [ok |-> FALSE, at |-> 0, tag |-> 0]

-----------------------------------------------------------------------------
\* compareSemver gives -1: the first component that differs decides.
OlderThan(v, w) ==
    /\ v # NotSemver /\ w # NotSemver
    /\ \E i \in 1..3 : v[i] < w[i] /\ \A j \in 1..(i - 1) : v[j] = w[j]

Fresh(cache) == cache.ok /\ clock - cache.at < CheckInterval

UpgradeHint(tag) ==
    hints' = IF tag # 0 /\ OlderThan(Running, Releases[tag]) THEN hints \cup {Releases[tag]}
             ELSE hints

Idle(p) ==
    /\ version' = [version EXCEPT ![p] = "idle"]
    /\ found' = [found EXCEPT ![p] = NoCache] /\ answer' = [answer EXCEPT ![p] = 0]

\* LatestTag begins with the cache; a file that does not parse counts as none.
ReadCache(p) ==
    /\ version[p] = "idle" /\ checks < MaxChecks
    /\ checks' = checks + 1
    /\ IF Fresh(checkFile) THEN UpgradeHint(checkFile.tag) /\ UNCHANGED <<version, found>>
       ELSE /\ version' = [version EXCEPT ![p] = "fetch"]
            /\ found' = [found EXCEPT ![p] = checkFile]
            /\ UNCHANGED hints
    /\ disturbed' = (disturbed \/ \E q \in Terminals : version[q] # "idle")
    /\ UNCHANGED <<clock, published, checkFile, answer, asked>>

FetchLatest(p) ==
    /\ version[p] = "fetch"
    /\ asked' = Append(asked, clock)
    /\ version' = [version EXCEPT ![p] = "open"]
    /\ answer' = [answer EXCEPT ![p] = published]
    /\ UNCHANGED <<clock, published, checkFile, found, checks, hints, disturbed>>

\* No answer: the tag of the stale cache, if there is one, has to do.
FetchFails(p) ==
    /\ version[p] = "fetch"
    /\ asked' = Append(asked, clock)
    /\ UpgradeHint(found[p].tag)
    /\ Idle(p)
    /\ disturbed' = TRUE
    /\ UNCHANGED <<clock, published, checkFile, checks>>

\* Mutant: the time of the check is kept when the tag is the one already cached.
CheckedNowIfNew(p) ==
    [ok |-> TRUE, tag |-> answer[p],
     at |-> IF found[p].ok /\ found[p].tag = answer[p] THEN found[p].at ELSE clock]

CheckedNow(p) == [ok |-> TRUE, tag |-> answer[p], at |-> clock]

\* os.WriteFile truncates, then writes; what is in between reads as no cache.
OpenCache(p) ==
    /\ version[p] = "open"
    /\ found' = [found EXCEPT ![p] = CheckedNow(p)]
    /\ checkFile' = NoCache
    /\ version' = [version EXCEPT ![p] = "write"]
    /\ UNCHANGED <<clock, published, answer, checks, asked, hints, disturbed>>

WriteCache(p) ==
    /\ version[p] = "write"
    /\ checkFile' = found[p]
    /\ UpgradeHint(answer[p])
    /\ Idle(p)
    /\ UNCHANGED <<clock, published, checks, asked, disturbed>>

\* The file cannot be opened or written, which is ignored, or the process crashes.
WriteFails(p) ==
    /\ version[p] \in {"open", "write"}
    /\ \/ UpgradeHint(answer[p])
       \/ UNCHANGED hints
    /\ Idle(p)
    /\ disturbed' = TRUE
    /\ UNCHANGED <<clock, published, checkFile, checks, asked>>

Tick ==
    /\ clock < MaxClock /\ clock' = clock + 1
    /\ UNCHANGED <<published, checkFile, version, found, answer, checks, asked, hints,
                   disturbed>>

Publish ==
    /\ published < Len(Releases) /\ published' = published + 1
    /\ UNCHANGED <<clock, checkFile, version, found, answer, checks, asked, hints,
                   disturbed>>

CheckStep(p) == FetchLatest(p) \/ FetchFails(p) \/ OpenCache(p) \/ WriteCache(p)

UpdateCheckInit ==
    /\ clock = 0 /\ published = 1 /\ checkFile = NoCache
    /\ version = [p \in Terminals |-> "idle"]
    /\ found = [p \in Terminals |-> NoCache] /\ answer = [p \in Terminals |-> 0]
    /\ checks = 0 /\ asked = <<>> /\ hints = {} /\ disturbed = FALSE

UpdateCheckNext == \/ \E p \in Terminals : ReadCache(p) \/ CheckStep(p) \/ WriteFails(p)
                   \/ Tick \/ Publish

-----------------------------------------------------------------------------
(* Properties *)

UpdateCheckTypeOK ==
    /\ clock \in 0..MaxClock /\ published \in 1..Len(Releases)
    /\ checkFile.ok \in BOOLEAN /\ checkFile.at \in 0..clock /\ checkFile.tag \in 0..published
    /\ version \in [Terminals -> {"idle", "fetch", "open", "write"}]
    /\ \A p \in Terminals : answer[p] \in 0..published /\ found[p].tag \in 0..published
    /\ checks \in 0..MaxChecks /\ Len(asked) <= checks /\ disturbed \in BOOLEAN

\* What the help of `refresh version` promises.  The check runs at most once per
\* day as long as every call and write succeeds and commands do not overlap, and
\* the version a hint names is newer than the binary by the order of releases,
\* also when it comes from a stale cache (LatestTag, writeCache, compareSemver).
UpdateCheckKeepsPromise ==
    /\ ~disturbed => \A i \in 2..Len(asked) : asked[i] - asked[i - 1] >= CheckInterval
    /\ \A v \in hints :
         \/ v[1] > Running[1]
         \/ v[1] = Running[1] /\ v[2] > Running[2]
         \/ v[1] = Running[1] /\ v[2] = Running[2] /\ v[3] > Running[3]

=============================================================================
