----------------------------- MODULE ShortLinks -----------------------------
(***************************************************************************)
(* services/url-shortener: a code is drawn, looked up and saved in three     *)
(* steps, and nothing reserves it in between.  The store in memory does not  *)
(* fail.                                                                    *)
(***************************************************************************)
EXTENDS Integers

CONSTANTS
    Codes,          \* a few of the 62^7
    Shorteners,     \* calls of Shorten; each names a URL of its own
    MaxAttempts     \* 5

NoUrl == ""     \* what the map gives for a code that it lacks

ASSUME LinksAssumption == Codes # {} /\ NoUrl \notin Shorteners /\ MaxAttempts \in Nat \ {0}

VARIABLES
    links,          \* links[code]: the call whose URL is stored, NoUrl when there is none
    shorten,        \* shorten[c]: a call's pc, its attempts so far and its code
    clashed         \* history: codes that two calls found free at once

linkVars == <<links, shorten, clashed>>

LinksInit ==
    /\ links = [k \in Codes |-> NoUrl]
    /\ shorten = [c \in Shorteners |-> [pc |-> "generate", attempts |-> 0, code |-> CHOOSE k \in Codes : TRUE]]
    /\ clashed = {}

Generate(c, k) ==
    /\ shorten[c].pc = "generate"
    /\ shorten' = [shorten EXCEPT ![c].pc = "exists", ![c].code = k]
    /\ UNCHANGED <<links, clashed>>

Saving(k) == {c \in Shorteners : shorten[c].pc = "save" /\ shorten[c].code = k}

\* A code that is taken is an attempt spent; after the last the call fails.
CheckExists(c) ==
    LET k == shorten[c].code IN
    /\ shorten[c].pc = "exists" /\ UNCHANGED links
    /\ IF links[k] = NoUrl
       THEN /\ shorten' = [shorten EXCEPT ![c].pc = "save"]
            /\ clashed' = IF Saving(k) = {} THEN clashed ELSE clashed \cup {k}
       ELSE /\ shorten' = [shorten EXCEPT ![c].attempts = @ + 1,
                    ![c].pc = IF shorten[c].attempts + 1 = MaxAttempts THEN "failed" ELSE "generate"]
            /\ UNCHANGED clashed

SaveLink(c) ==
    /\ shorten[c].pc = "save"
    /\ links' = [links EXCEPT ![shorten[c].code] = c]
    /\ shorten' = [shorten EXCEPT ![c].pc = "answered"]
    /\ UNCHANGED clashed

LinksNext ==
    \E c \in Shorteners : (\E k \in Codes : Generate(c, k)) \/ CheckExists(c) \/ SaveLink(c)

LinksSpec == LinksInit /\ [][LinksNext]_linkVars

-----------------------------------------------------------------------------
LinksTypeOK ==
    /\ links \in [Codes -> Shorteners \cup {NoUrl}]
    /\ shorten \in [Shorteners -> [pc : {"generate", "exists", "save", "answered", "failed"},
                                   attempts : 0 .. MaxAttempts, code : Codes]]
    /\ clashed \subseteq Codes

\* A short URL that was handed out leads where its caller wanted, however many were
\* handed out since, unless two calls had drawn the same code at the same time.
LinksStand ==
    \A c \in Shorteners : shorten[c].pc = "answered" /\ shorten[c].code \notin clashed =>
        links[shorten[c].code] = c
=============================================================================
