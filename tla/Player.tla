------------------------------- MODULE Player -------------------------------
(***************************************************************************)
(* The MP3 player (player_lib.c, gui.c): it indexes the songs of the card  *)
(* at power-on, then plays the list.  NiosIIMP3_PlayPlaylist runs the      *)
(* decoder once per song; the decoder calls NiosIIMP3_Input for the bytes  *)
(* of the song and NiosIIMP3_Output for every frame it decoded, and the    *)
(* latter looks at the touch screen while it waits for the audio driver,   *)
(* or in its pause loop.                                                   *)
(*                                                                         *)
(* The user presses buttons, takes the card out and puts it back, and      *)
(* turns the player off and on, MaxEvents times in all.  The list of songs *)
(* and the song playing outlive that as files on the card.                 *)
(*                                                                         *)
(* Where the code goes on with a wrong pointer or a negative buffer length *)
(* its behaviour is undefined; the model stops there ("undefined").        *)
(***************************************************************************)
EXTENDS Playlist

CONSTANTS
  Bad,        \* songs whose file does not open
  Silent,     \* songs without a frame that decodes
  ShortTag,   \* songs whose tag is shorter than what the decoder leaves over
  Length,     \* pieces of a song that one call of NiosIIMP3_Input reads
  Threshold,  \* SKIP_BACK_THRESHOLD, in frames
  MaxEvents   \* what the user does in a behaviour

ASSUME KindsAssumption == Bad \subseteq Songs /\ Silent \subseteq Songs /\ ShortTag \subseteq Songs
ASSUME LengthAssumption == Length \in Nat \ {0} /\ Threshold \in Nat /\ MaxEvents \in Nat

VARIABLES
  database, saved,                        \* files on the card: the order of the songs;
                                          \* the song playing and the modes
  card,                                   \* "ready", "out", or "back" and yet to be initialised
  list, now_playing, sorting,             \* the playlist; where SortPlaylist is
  pc, file_handle, file_position, bad_files,
  rest,                                   \* the decoder leaves bytes over in the buffer
  command, command_target, sequence_mode, repeat_playlist, played, flow,
  events,                                 \* user events so far
  heard, unsaved, expected                \* history: see ResumesSong

disk == <<database, saved>>
modes == <<sequence_mode, repeat_playlist>>
playing == <<file_handle, file_position, bad_files, rest, played, flow>>
orders == <<command, command_target>>
position == <<file_position, played>>
history == <<heard, unsaved, expected>>
vars == <<disk, card, list, sorting, now_playing, pc, playing, orders, modes, events, history>>

-----------------------------------------------------------------------------
Commands == {"PLAY", "PAUSE", "SKIP_FWD", "SKIP_BACK", "SKIP_SPECIFIC"}
None == "none"
NoSort == [field |-> 1, turn |-> 0, current |-> Null]
ASSUME NoneAssumption == None \notin Songs

TypeOK ==
  /\ database \in Seq(Songs)
  /\ saved \in [song : Songs \cup {None}, sequence : {"FORWARD", "RANDOM"}, repeat : BOOLEAN]
  /\ card \in {"ready", "out", "back"} /\ rest \in BOOLEAN
  /\ sorting \in [field : 1 .. 3, turn : Nat, current : Songs \cup {Null}]
  /\ list \in Lists /\ now_playing \in Songs \cup {Null}
  /\ pc \in {"index", "sort", "resume", "open", "wait", "input", "retry", "error", "write",
             "pause", "advance", "exit", "undefined"}
  /\ file_handle \in Songs \cup {None} /\ file_position \in 0 .. Length /\ bad_files \in 0 .. 3
  /\ command \in Commands /\ command_target \in Songs \cup {None}
  /\ sequence_mode \in {"FORWARD", "RANDOM"} /\ repeat_playlist \in BOOLEAN
  /\ played \in 0 .. Threshold /\ flow \in {"CONTINUE", "STOP"}
  /\ events \in 0 .. MaxEvents
  /\ heard \in Songs \cup {None} /\ expected \in Songs \cup {None} /\ unsaved \in BOOLEAN

Init ==
  /\ database = << >> /\ saved = [song |-> None, sequence |-> "FORWARD", repeat |-> FALSE]
  /\ card = "ready" /\ rest = FALSE
  /\ list = EmptyList /\ sorting = NoSort /\ now_playing = Null /\ pc = "index"
  /\ file_handle = None /\ file_position = 0 /\ bad_files = 0 /\ played = 0
  /\ flow = "CONTINUE" /\ command = "PLAY" /\ command_target = None
  /\ sequence_mode = "FORWARD" /\ repeat_playlist = FALSE
  /\ events = 0 /\ heard = None /\ unsaved = FALSE /\ expected = None

-----------------------------------------------------------------------------
(* NiosIIMP3_IndexSDCard and the start of NiosIIMP3_PlayPlaylist *)

SortFields == <<"track", "album", "artist">>

\* The index on the card is read as it is; without one the songs of the directory,
\* which come in any order, are sorted by one field after the other.
Index ==
  /\ pc = "index"
  /\ \/ /\ database # << >>
        /\ list' = Built(database)
        /\ pc' = "resume"
     \/ /\ database = << >>
        /\ \E directory \in SetToSeqs(Songs) : list' = Built(directory)
        /\ pc' = "sort"
  /\ now_playing' = list'.list_start
  /\ UNCHANGED <<disk, card, sorting, playing, orders, modes, events, history>>

SortTurn ==
  /\ pc = "sort" /\ sorting.turn < Turns(list)
  /\ LET field == SortFields[sorting.field]
         c == CurrentAt(list, sorting.turn, sorting.current)
     IN  /\ list' = SortedOnce(list, c, field)
         /\ sorting' = [sorting EXCEPT !.turn = @ + 1, !.current = CurrentAfter(list, c, field)]
  /\ UNCHANGED <<disk, card, now_playing, pc, playing, orders, modes, events, history>>

\* The next field; behind the last one the index is written, and the first song is
\* the one to play.
NextField ==
  /\ pc = "sort" /\ sorting.turn = Turns(list)
  /\ IF sorting.field < Len(SortFields)
     THEN /\ sorting' = [field |-> sorting.field + 1, turn |-> 0, current |-> Null]
          /\ UNCHANGED <<database, now_playing, pc>>
     ELSE /\ sorting' = NoSort
          /\ database' = Order(list)
          /\ now_playing' = list.list_start
          /\ pc' = "resume"
  /\ UNCHANGED <<saved, card, list, playing, orders, modes, events, history>>

Remembered == IF saved.song \in ToSet(Order(list)) THEN saved.song ELSE list.list_start

\* NiosIIMP3_ReadSaveStateFromSDCard
Resume ==
  /\ pc = "resume"
  /\ now_playing' = Remembered
  /\ sequence_mode' = saved.sequence /\ repeat_playlist' = saved.repeat
  /\ pc' = "open"
  /\ UNCHANGED <<disk, card, list, sorting, playing, orders, events, history>>

-----------------------------------------------------------------------------
(* NiosIIMP3_Input *)

OpenFile ==
  /\ pc = "open" /\ card = "ready" /\ now_playing \notin Bad
  /\ file_handle' = now_playing /\ file_position' = 0 /\ bad_files' = 0
  /\ pc' = "input"
  /\ heard' = now_playing /\ expected' = None
  /\ UNCHANGED <<disk, card, list, sorting, now_playing, rest, played, flow, orders, modes, events,
                 unsaved>>

OpenFails ==
  /\ pc = "open" /\ (card # "ready" \/ now_playing \in Bad)
  /\ pc' = "wait"
  /\ unsaved' = (unsaved \/ card # "ready")
  /\ expected' = IF card = "ready" THEN expected ELSE None
  /\ UNCHANGED <<disk, card, list, sorting, now_playing, playing, orders, modes, events, heard>>

\* WaitOnSDCardFailure initialises the card, once it is in, and returns 0 with the
\* card back as with a card that was there: the song is passed over.  The third in
\* a row indexes the card again and hands the wrong structure to
\* NiosIIMP3_ReadSaveStateFromSDCard.
PassOver ==
  /\ pc = "wait" /\ card # "out"
  /\ card' = "ready"
  /\ bad_files' = bad_files + 1
  /\ now_playing' = list.next[now_playing]
  /\ pc' = IF bad_files' > 2 THEN "undefined" ELSE "open"
  /\ UNCHANGED <<disk, list, sorting, file_handle, file_position, rest, played, flow, orders, modes,
                 events, history>>

\* The position asked for is the one to go on from less what the decoder has left
\* over: negative when the user has moved to the start of a song with a short tag.
SeeksBeforeStart == rest /\ file_position = 0 /\ now_playing \in ShortTag

WantsPiece == pc = "input" /\ file_position < Length

\* A piece is read and decoded.  NiosIIMP3_Error reads on behind one that does not
\* decode.
ReadPiece ==
  /\ WantsPiece /\ card = "ready" /\ ~SeeksBeforeStart
  /\ file_position' = file_position + 1
  /\ rest' \in BOOLEAN
  /\ pc' = IF file_handle \in Silent THEN "input" ELSE "write"
  /\ UNCHANGED <<disk, card, list, sorting, now_playing, file_handle, bad_files, played, flow, orders,
                 modes, events, history>>

\* A read that fails leaves a negative length.
ReadFails ==
  /\ WantsPiece /\ card # "ready" /\ ~SeeksBeforeStart
  /\ pc' = "undefined"
  /\ UNCHANGED <<disk, card, list, sorting, now_playing, playing, orders, modes, events, history>>

\* lseek refuses a negative position, and fails when it has a sector to read.
SeekFails ==
  /\ WantsPiece /\ (card # "ready" \/ SeeksBeforeStart)
  /\ pc' = "retry"
  /\ UNCHANGED <<disk, card, list, sorting, now_playing, playing, orders, modes, events, history>>

\* Fault: the card that is back is not initialised
RetryBlind ==
  /\ pc = "retry" /\ card # "out"
  /\ pc' = "input"
  /\ UNCHANGED <<disk, card, list, sorting, now_playing, playing, orders, modes, events, history>>

\* WaitOnSDCardFailure, after which the same position is asked for again.
Retry ==
  /\ pc = "retry" /\ card # "out"
  /\ card' = "ready"
  /\ pc' = "input"
  /\ UNCHANGED <<disk, list, sorting, now_playing, playing, orders, modes, events, history>>

\* NiosIIMP3_Error does not look at what comes of its seek and waits for no card:
\* where the seek fails the same bytes are decoded again.
SeekIgnored ==
  /\ WantsPiece /\ card # "ready" /\ file_handle \in Silent /\ file_position > 0
  /\ pc' = "error"
  /\ UNCHANGED <<disk, card, list, sorting, now_playing, playing, orders, modes, events, history>>

DecodeAgain ==
  /\ pc = "error"
  /\ pc' = "input"
  /\ UNCHANGED <<disk, card, list, sorting, now_playing, playing, orders, modes, events, history>>

EndOfSong ==
  /\ pc = "input" /\ file_position = Length
  /\ pc' = "advance"
  /\ UNCHANGED <<disk, card, list, sorting, now_playing, playing, orders, modes, events, history>>

-----------------------------------------------------------------------------
(* NiosIIMP3_Output *)

Capped(k, cap) == IF k < cap THEN k ELSE cap

\* Fault: the decoder is never told to stop
ReturnedOn == "input"

\* What NiosIIMP3_Output returns once it is not to pause
Returned == IF flow = "STOP" THEN "advance" ELSE "input"

AfterFrame == IF command = "PAUSE" THEN "pause" ELSE Returned

\* The audio driver takes the frame.
FrameAccepted ==
  /\ pc = "write"
  /\ played' = Capped(played + 1, Threshold)
  /\ pc' = AfterFrame
  /\ UNCHANGED <<disk, card, list, sorting, now_playing, file_handle, file_position, bad_files, rest,
                 flow, orders, modes, events, history>>

LeavePause ==
  /\ pc = "pause" /\ command # "PAUSE"
  /\ pc' = Returned
  /\ UNCHANGED <<disk, card, list, sorting, now_playing, playing, orders, modes, events, history>>

-----------------------------------------------------------------------------
(* UpdateGUIMain: what a touch does while a frame waits or the player pauses *)

Event == events < MaxEvents /\ events' = events + 1
InGUI == pc \in {"write", "pause"}

PressSkip ==
  /\ command' \in {"SKIP_FWD", "SKIP_BACK"}
  /\ flow' = "STOP"
  /\ UNCHANGED <<command_target, position, modes>>

PressPlay ==
  /\ command' = "PLAY"
  /\ UNCHANGED <<command_target, position, flow, modes>>

PressPause ==
  /\ command' = CASE command = "PAUSE" -> "PLAY" [] command = "PLAY" -> "PAUSE" [] OTHER -> command
  /\ UNCHANGED <<command_target, position, flow, modes>>

\* A song of the list is touched and the pen lifted.
PressSong ==
  /\ command' = "SKIP_SPECIFIC" /\ command_target' \in ToSet(Order(list))
  /\ flow' = "STOP"
  /\ UNCHANGED <<position, modes>>

\* The bar of the play time is touched: the position moves at once, and with it the
\* count of samples played.
PressTime ==
  /\ file_position' \in 0 .. Length
  /\ played' \in 0 .. IF file_position' = 0 THEN 0 ELSE Threshold
  /\ UNCHANGED <<orders, flow, modes>>

PressMode ==
  /\ \/ sequence_mode' \in {"FORWARD", "RANDOM"} /\ UNCHANGED repeat_playlist
     \/ repeat_playlist' = ~repeat_playlist /\ UNCHANGED sequence_mode
  /\ UNCHANGED <<orders, position, flow>>

UpdateGUIMain ==
  /\ InGUI /\ Event
  /\ PressSkip \/ PressPlay \/ PressPause \/ PressSong \/ PressTime \/ PressMode
  /\ UNCHANGED <<disk, card, list, sorting, now_playing, pc, file_handle, bad_files, rest, history>>

-----------------------------------------------------------------------------
(* NiosIIMP3_PlayPlaylist behind the decoder *)

\* Fault: the state is saved before the player moves on
StateBefore(song) == [song |-> now_playing, sequence |-> sequence_mode, repeat |-> repeat_playlist]

StateToSave(song) == [song |-> song, sequence |-> sequence_mode, repeat |-> repeat_playlist]

\* The file is closed and the next song opened by NiosIIMP3_Input, for a decoder
\* with an empty buffer.  The state is saved if the card is ready.
Proceed(song, pausing) ==
  /\ pc = "advance"
  /\ now_playing' = song
  /\ file_handle' = None /\ rest' = FALSE /\ played' = 0 /\ flow' = "CONTINUE"
  /\ command' = IF pausing THEN "PAUSE" ELSE "PLAY"
  /\ saved' = IF card = "ready" THEN StateToSave(song) ELSE saved
  /\ heard' = None /\ unsaved' = (card # "ready")
  /\ pc' = "open"
  /\ UNCHANGED <<database, card, list, sorting, file_position, bad_files, command_target, modes, events,
                 expected>>

Wanting(commands) == command \in commands

\* Fault: the end of the list is not noticed
AtEndNever(song) == FALSE

\* The last song has been played and the list is not to be repeated
AtEnd(song) == ~repeat_playlist /\ song = list.list_start

AdvanceForward ==
  /\ Wanting({"PLAY", "SKIP_FWD"}) /\ sequence_mode = "FORWARD"
  /\ Proceed(list.next[now_playing], AtEnd(list.next[now_playing]))

AdvanceRandom ==
  /\ Wanting({"PLAY", "SKIP_FWD"}) /\ sequence_mode = "RANDOM"
  /\ \E song \in ToSet(Order(list)) : Proceed(song, FALSE)

\* A song that has been playing for a while starts again.
AdvanceBack ==
  /\ Wanting({"SKIP_BACK"})
  /\ Proceed(IF played < Threshold THEN list.prev[now_playing] ELSE now_playing, FALSE)

AdvanceSpecific ==
  /\ Wanting({"SKIP_SPECIFIC"})
  /\ Proceed(command_target, FALSE)

\* Any other command leaves the loop, and main.
Exit ==
  /\ pc = "advance" /\ command = "PAUSE"
  /\ pc' = "exit"
  /\ UNCHANGED <<disk, card, list, sorting, now_playing, playing, orders, modes, events, history>>

-----------------------------------------------------------------------------
(* The card and the power *)

\* A card that is put back has to be initialised before it can be read.
MoveCard ==
  /\ pc \notin {"index", "sort", "resume"} /\ Event
  /\ card' = IF card = "out" THEN "back" ELSE "out"
  /\ UNCHANGED <<disk, list, sorting, now_playing, pc, playing, orders, modes, history>>

\* Off and on again, with the card in, which main initialises
PowerCycle ==
  /\ Event
  /\ card' = "ready" /\ rest' = FALSE
  /\ list' = EmptyList /\ sorting' = NoSort /\ now_playing' = Null /\ pc' = "index"
  /\ file_handle' = None /\ file_position' = 0 /\ bad_files' = 0 /\ played' = 0
  /\ flow' = "CONTINUE" /\ command' = "PLAY" /\ command_target' = None
  /\ sequence_mode' = "FORWARD" /\ repeat_playlist' = FALSE
  /\ expected' = IF unsaved THEN None ELSE heard
  /\ heard' = None /\ unsaved' = FALSE
  /\ UNCHANGED disk

Program ==
  \/ Index \/ SortTurn \/ NextField \/ Resume \/ OpenFile \/ OpenFails \/ PassOver
  \/ ReadPiece \/ ReadFails \/ SeekFails \/ Retry \/ SeekIgnored \/ DecodeAgain \/ EndOfSong
  \/ FrameAccepted \/ LeavePause
  \/ AdvanceForward \/ AdvanceRandom \/ AdvanceBack \/ AdvanceSpecific \/ Exit

Next == Program \/ UpdateGUIMain \/ MoveCard \/ PowerCycle

Spec == Init /\ [][Next]_vars /\ WF_vars(Program)

-----------------------------------------------------------------------------
(* Properties *)

\* The list stays one cycle with prev the inverse of next, through the sorting in
\* place.
ListCircular == Circular(list)

\* Three sorts by one field each make one by three: each keeps the order of the ones
\* before, though it exchanges the nodes of a list it walks.
ListSorted ==
  LET o == Order(list) IN pc # "sort" => \A i, j \in DOMAIN o : Precedes(o[i], o[j]) => i < j

\* The song the display shows and the card remembers is the one whose file is read.
PlaysNowPlaying == file_handle # None => file_handle = now_playing

\* Switched on again, the player plays the song it had on when it was switched off,
\* unless it passed over a song or moved on without the card.
ResumesSong ==
  [][pc = "open" /\ pc' = "input" => expected \in {None, now_playing}]_pc

\* The player does not end but at a song without any sound it comes to while it is
\* to pause.
EndsOnSilenceOnly == pc = "exit" => now_playing \in Silent

\* The decoder does not read on while a skip waits to be carried out, and a skip is
\* over with the song it ended.
SkipTakesEffect == pc \in {"open", "wait", "input", "retry", "error"} => command \in {"PLAY", "PAUSE"}

\* The user does not send the player to a position before the start of a song, which
\* the loop of NiosIIMP3_Input would ask for for ever, with the card in.
NoSeekBeforeStart == pc = "input" => ~SeeksBeforeStart

\* Once the card stays in, the loops around WaitOnSDCardFailure end and the decoder
\* goes on, however often the card was taken out while a song was opened or read.
\* NiosIIMP3_Error has no such loop: a song it has to read on in may hang.
InputReturns ==
  <>[](card # "out") /\ [](NoSeekBeforeStart /\ pc # "error") =>
    []<>(pc \notin {"open", "wait", "input", "retry", "error"})

\* The card is left in, and no position is before the start.
Undisturbed == card = "ready" /\ NoSeekBeforeStart

\* Undisturbed, and with no three songs in a row that do not open, a list that is
\* repeated in order has every song that opens played again and again.
AllPlayed ==
  []Undisturbed /\ <>[](repeat_playlist /\ sequence_mode = "FORWARD" /\ command = "PLAY") =>
    \A s \in Songs \ Bad : []<>(file_handle = s)

\* Undisturbed, a list that is not repeated comes to its end and pauses there, if its
\* last song opens: the end is not noticed where the last song is passed over.  When
\* the song it would pause at has no sound the player ends instead.  Here too no three
\* songs in a row fail to open.
StopsAtEnd ==
  []Undisturbed /\ <>[](~repeat_playlist /\ sequence_mode = "FORWARD" /\ pc \notin {"index", "sort"}
                        /\ Order(list)[list.num_files] \notin Bad) => <>[](pc \in {"pause", "exit"})

\* The types, and a command, a file and a song on the display that go together.
StateOK == TypeOK /\ PlaysNowPlaying /\ EndsOnSilenceOnly /\ SkipTakesEffect

\* The list is played through, once or for ever.
ListPlayed == AllPlayed /\ StopsAtEnd
=============================================================================
