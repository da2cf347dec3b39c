----------------------------- MODULE CookieStore -----------------------------
(***************************************************************************)
(* What the cookies of libcurl promise, whatever lists and lines they are  *)
(* kept in: a handle knows one cookie of an identity, the one a server set *)
(* last, or else that of the file; the file is replaced as a whole by what *)
(* the handle knew when it was closed, unless the process dies meanwhile.  *)
(***************************************************************************)
CONSTANTS ReadBack(_),   \* what comes back of a cookie that is put into the file: {} or
                         \* one cookie
          HalfWritten(_) \* the cookies that can come back of one, if writing it was
                         \* interrupted: not of its own identity only

VARIABLES store,   \* the cookies of the handle: id, value, and whether a server set it
          kept,    \* the cookies the next handle would read
          phase    \* "closed", "open" or "saving"

storeVars == <<store, kept, phase>>

SetByServer(id) == \E c \in store : c.id = id /\ c.live

StoreInit == store = {} /\ kept = {} /\ phase = "closed"

Open == phase = "closed" /\ phase' = "open" /\ UNCHANGED <<store, kept>>

\* The cookies of the file are added; what a server set since stays.
Read ==
  /\ phase = "open"
  /\ store' = {c \in store : c.live \/ ~ \E k \in kept : k.id = c.id}
                \cup {k \in kept : ~ SetByServer(k.id)}
  /\ UNCHANGED <<kept, phase>>

Put ==
  /\ phase = "open"
  /\ \E c \in store' :
       /\ c.live
       /\ store' = {b \in store : b.id # c.id} \cup {c}
  /\ UNCHANGED <<kept, phase>>

BeginSave ==
  /\ phase = "open" /\ store # {}
  /\ phase' = "saving" /\ kept' = {}
  /\ UNCHANGED store

\* Of the cookies that come back as one, either may.
Keepable == UNION {ReadBack(c) : c \in store}

OneOfEach(cookies) == \A b, c \in cookies : b.id = c.id => b = c

Save ==
  /\ phase = "saving"
  /\ kept' \subseteq Keepable /\ OneOfEach(kept')
  /\ UNCHANGED <<store, phase>>

\* The file is whole: every cookie has come into it, or another of its identity.
EndSave ==
  /\ phase = "saving"
  /\ \A c \in Keepable : \E k \in kept : k.id = c.id
  /\ phase' = "closed" /\ store' = {}
  /\ UNCHANGED kept

\* There is nothing to save, or the file cannot be opened.
CloseOnly == phase = "open" /\ phase' = "closed" /\ store' = {} /\ UNCHANGED kept

\* Dying while saving loses what was not saved yet.  One cookie may be left half: what
\* comes back of it can be of another identity, and is then taken for that cookie, whose
\* value is lost though it was saved.
Die ==
  /\ phase # "closed" /\ phase' = "closed" /\ store' = {}
  /\ \/ UNCHANGED kept
     \/ /\ phase = "saving"
        /\ \E c \in store : \E half \in HalfWritten(c) :
             kept' = {k \in kept : k.id # half.id} \cup {half}

StoreNext == Put \/ Open \/ Read \/ BeginSave \/ Save \/ EndSave \/ CloseOnly \/ Die

StoreSpec == StoreInit /\ [][StoreNext]_storeVars
=============================================================================
