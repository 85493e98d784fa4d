--------------------------- MODULE SelfUpdateCheck ---------------------------
\* The aggregator's check for its own releases (internal/selfupdate): a cached
\* latest tag, refreshed by a timer (Run) and by every admin who changes the
\* channel (handleAdminSelfUpdateChannel).  A refresh fetches the list without
\* the mutex, then reads the channel under it, then stores under it again, so
\* refreshes overtake each other.
EXTENDS Version, SequencesExt

CONSTANTS Admins,        \* goroutines of the channel handler
          Initially,     \* the sequence of tags GitHub lists at the start
          Later,         \* the sequence of tags published afterwards
          ConfiguredChannel,    \* the channel of the environment
          Offered,       \* the channels an admin's request may name
          MaxRequests,    \* bound: channel requests
          MaxFetchFailures    \* bound: fetches that fail, and restarts

ASSUME SelfUpdateAssumption ==
    /\ "timer" \notin Admins
    /\ ConfiguredChannel \in Channels
    /\ MaxRequests \in Nat /\ MaxFetchFailures \in Nat

VARIABLES published,     \* GitHub: how many tags of Later are out
          channel,       \* Client.channel
          latest,        \* Client.latestTag, <<>> before hasResult
          refresh,       \* per refresher: where its Refresh stands
          changes, failures

checkVars == <<published, channel, latest, refresh, changes, failures>>

Refreshers == Admins \cup {"timer"}

\* Refresh's places: nothing running, the request out, the list decoded, the
\* tag chosen but not stored.
Idle == [pc |-> "idle"]
Requested == [pc |-> "fetch"]
Decoded(n) == [pc |-> "choose", n |-> n]
Chosen(tag) == [pc |-> "store", tag |-> tag]

\* highestRelease scans the list and keeps the highest tag by Compare that
\* meets the channel, the first of equals; <<>> while none did.
keep(ch) ==
    [best \in Seq(Texts), tag \in Texts |->
        IF MeetsChannel(tag, ch) /\ (best = <<>> \/ Compare(tag, best[1]) > 0)
        THEN <<tag>> ELSE best]

highestRelease(list, ch) ==
    LET scan[i \in 0..Len(list)] ==
          IF i = 0 THEN <<>> ELSE keep(ch)[scan[i - 1], list[i]]
    IN scan[Len(list)]

\* GitHub's list once n of the later tags are out, newest first.
Listed(n) == Reverse(SubSeq(Later, 1, n)) \o Initially

\* The process is new: New's client, and Run's first refresh under way.
NewClient == [r \in Refreshers |-> IF r = "timer" THEN Requested ELSE Idle]

InitCheck ==
    /\ published = 0
    /\ channel = ConfiguredChannel /\ latest = <<>> /\ refresh = NewClient
    /\ changes = 0 /\ failures = 0

At(r, pc) == refresh[r].pc = pc
Goto(r, place) == refresh' = [refresh EXCEPT ![r] = place]

Publish ==
    /\ published < Len(Later)
    /\ published' = published + 1
    /\ UNCHANGED <<channel, latest, refresh, changes, failures>>

Tick ==
    /\ At("timer", "idle")
    /\ Goto("timer", Requested)
    /\ UNCHANGED <<published, channel, latest, changes, failures>>

\* An invalid channel is answered 400: nothing changes and nothing is fetched.
SetChannel(a, ch) ==
    /\ changes < MaxRequests
    /\ At(a, "idle")
    /\ changes' = changes + 1
    /\ IF ValidChannel(ch) THEN channel' = ch /\ Goto(a, Requested)
                           ELSE UNCHANGED <<channel, refresh>>
    /\ UNCHANGED <<published, latest, failures>>

Fetch(r) ==
    /\ At(r, "fetch")
    /\ Goto(r, Decoded(published))
    /\ UNCHANGED <<published, channel, latest, changes, failures>>

\* The request, the status or the JSON is bad: the cached result stays.
FetchFails(r) ==
    /\ failures < MaxFetchFailures
    /\ At(r, "fetch")
    /\ Goto(r, Idle)
    /\ failures' = failures + 1
    /\ UNCHANGED <<published, channel, latest, changes>>

\* c.Channel(), and the choice; no tag that meets it is an error as well.
Choose(r) ==
    /\ At(r, "choose")
    /\ \E best \in {highestRelease(Listed(refresh[r].n), channel)} :
         Goto(r, IF best = <<>> THEN Idle ELSE Chosen(best[1]))
    /\ UNCHANGED <<published, channel, latest, changes, failures>>

StoreIfNewer(r) ==                      \* mutant: never back to a lower tag
    /\ At(r, "store")
    /\ latest' = IF latest # <<>> /\ Compare(refresh[r].tag, latest[1]) =< 0
                 THEN latest ELSE <<refresh[r].tag>>
    /\ Goto(r, Idle)
    /\ UNCHANGED <<published, channel, changes, failures>>

Store(r) ==
    /\ At(r, "store")
    /\ latest' = <<refresh[r].tag>>
    /\ Goto(r, Idle)
    /\ UNCHANGED <<published, channel, changes, failures>>

\* The process restarts: an empty client on the configured channel, and Run's
\* first refresh.
RestartClient ==
    /\ failures < MaxFetchFailures
    /\ failures' = failures + 1
    /\ channel' = ConfiguredChannel /\ latest' = <<>> /\ refresh' = NewClient
    /\ UNCHANGED <<published, changes>>

RefreshStep(r) == Fetch(r) \/ FetchFails(r) \/ Choose(r) \/ Store(r)

CheckNext ==
    \/ Publish \/ Tick \/ RestartClient
    \/ \E a \in Admins : \E ch \in Offered : SetChannel(a, ch)
    \/ \E r \in Refreshers : RefreshStep(r)

\* The reference for highestRelease: a tag of the list that meets the channel
\* and that no other such tag is above.
Best(list, ch) ==
    LET meeting == {list[i] : i \in {j \in 1..Len(list) : MeetsChannel(list[j], ch)}}
    IN {t \in meeting : \A u \in meeting : Compare(t, u) >= 0}

\* LatestSettles: however the refreshes of the timer and of the admins overtook
\* each other, once releases, channel requests and failed fetches have come
\* to rest (each is bounded), the tag the admin page is shown
\* is a best release of the channel in effect (if one meets it) and stays so.
\* A stale refresh may store a tag of the former channel last, and the refresh
\* of the next tick must put it right (Refresh, Run and SetChannel).
LatestSettles ==
    <>[]( Best(Listed(published), channel) # {} =>
            latest # <<>> /\ latest[1] \in Best(Listed(published), channel))
=============================================================================
