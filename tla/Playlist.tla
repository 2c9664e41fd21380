------------------------------ MODULE Playlist ------------------------------
(***************************************************************************)
(* The playlist of the player (player_lib.c): songs in a circular list     *)
(* linked both ways, built at the bottom and bubble-sorted in place.  A    *)
(* list is a record of its links, its first song and its number of songs;  *)
(* every assignment to a link is one EXCEPT, in the order of the code,     *)
(* because the nodes the assignments name may be the same.                 *)
(***************************************************************************)
EXTENDS Integers, Sequences, SequencesExt

CONSTANTS
  Songs,    \* the songs on the card
  Rank      \* Rank[field][song], the order of the songs by a field of the tag

Null == "null"
Fields == {"track", "album", "artist"}

ASSUME SongsAssumption == Null \notin Songs
ASSUME RankAssumption == Rank \in [Fields -> [Songs -> Nat]]

Lists ==
  [next : [Songs -> Songs \cup {Null}], prev : [Songs -> Songs \cup {Null}],
   list_start : Songs \cup {Null}, num_files : Nat]

EmptyList ==
  [next |-> [s \in Songs |-> Null], prev |-> [s \in Songs |-> Null],
   list_start |-> Null, num_files |-> 0]

\* The songs from the first on, as every loop over num_files songs meets them
Order(l) ==
  LET at[i \in 1 .. l.num_files] == IF i = 1 THEN l.list_start ELSE l.next[at[i - 1]]
  IN  at

AddEntryToBottom(l, s) ==
  IF l.num_files = 0
  THEN [next |-> [l.next EXCEPT ![s] = s], prev |-> [l.prev EXCEPT ![s] = s],
        list_start |-> s, num_files |-> 1]
  ELSE LET last == l.prev[l.list_start]
       IN  [next |-> [l.next EXCEPT ![last] = s, ![s] = l.list_start],
            prev |-> [l.prev EXCEPT ![l.list_start] = s, ![s] = last],
            list_start |-> l.list_start, num_files |-> l.num_files + 1]

\* The list of the songs, added one by one
Built(songs) ==
  LET first[i \in 0 .. Len(songs)] ==
        IF i = 0 THEN EmptyList ELSE AddEntryToBottom(first[i - 1], songs[i])
  IN  first[Len(songs)]

\* Fault: the neighbours of the pair keep their links to it
SwapPairOnly(l, A) ==
  LET B == l.next[A]
  IN  [l EXCEPT !.list_start = IF @ = A THEN B ELSE IF @ = B THEN A ELSE @,
                !.next[A] = l.next[B], !.next[B] = A,
                !.prev[B] = l.prev[A], !.prev[A] = B]

\* SwapPlaylistNodes for a song and the next one, the only pairs that are swapped
SwapWithNext(l, A) ==
  LET B == l.next[A]
      n1 == [l.next EXCEPT ![l.prev[A]] = B]     \* A->prev->next = B
      p1 == [l.prev EXCEPT ![n1[B]] = A]         \* B->next->prev = A
      n2 == [n1 EXCEPT ![A] = n1[B]]             \* A->next = B->next
      n3 == [n2 EXCEPT ![B] = A]                 \* B->next = A
      p2 == [p1 EXCEPT ![B] = p1[A]]             \* B->prev = A->prev
      p3 == [p2 EXCEPT ![A] = B]                 \* A->prev = B
  IN  [l EXCEPT !.next = n3, !.prev = p3,
                !.list_start = IF @ = A THEN B ELSE IF @ = B THEN A ELSE @]

\* Fault: songs of the same rank are out of order too
OutOfOrderOrSame(A, B, field) == Rank[field][A] >= Rank[field][B]

NodesAreOutOfOrder(A, B, field) == Rank[field][A] > Rank[field][B]

\* SortPlaylist, one turn of its inner loop: current is exchanged with the next song,
\* or the next song is current.  The outer loop starts again at the first song.
Turns(l) == l.num_files * (l.num_files - 1)
CurrentAt(l, turn, current) ==
  IF turn % (l.num_files - 1) = 0 THEN l.list_start ELSE current

SortedOnce(l, c, field) == IF NodesAreOutOfOrder(c, l.next[c], field) THEN SwapWithNext(l, c) ELSE l
CurrentAfter(l, c, field) == IF NodesAreOutOfOrder(c, l.next[c], field) THEN c ELSE l.next[c]

-----------------------------------------------------------------------------
\* The links of a list of songs make one cycle, and prev undoes next.
Circular(l) ==
  LET o == Order(l)
  IN  /\ \A i, j \in DOMAIN o : o[i] = o[j] => i = j
      /\ \A i \in DOMAIN o : l.prev[l.next[o[i]]] = o[i]
      /\ l.num_files > 0 => l.next[o[l.num_files]] = l.list_start

\* a is to be listed before b: by artist, then by album, then by track
Precedes(a, b) ==
  LET key(s) == <<Rank["artist"][s], Rank["album"][s], Rank["track"][s]>>
  IN  \E i \in 1 .. 3 : key(a)[i] < key(b)[i] /\ \A j \in 1 .. i - 1 : key(a)[j] = key(b)[j]
=============================================================================
