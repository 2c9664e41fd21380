-------------------------------- MODULE SpiLink ---------------------------------
(***************************************************************************)
(* The SPI master with a device on its selected line.  Master and device   *)
(* exchange a word in both directions at once.  The device is an ordinary  *)
(* SPI slave of the same mode: with cpha = 0 it samples on the edges that  *)
(* leave the rest level and shifts on those that return, with cpha = 1 the *)
(* other way round.  It sees an edge of sclk while mosi may be changing,   *)
(* so what it samples is mosi on either side of the edge.                  *)
(*                                                                         *)
(* The client of the master holds cont as it was at the last bit until the *)
(* word has ended; it may raise it for any word it still has to send.      *)
(***************************************************************************)
EXTENDS SpiMaster

CONSTANTS
    Dividers,   \* values of clk_div
    Addresses,  \* values of addr
    MaxWords    \* words the client sends

ASSUME AddressAssumption == Addresses \subseteq Nat
\* clk_div is an integer of the hardware: it has a largest value.
ASSUME DividerAssumption ==
    Dividers \subseteq Nat /\ \E d \in Dividers \cup {1} : \A e \in Dividers : d >= e

VARIABLES
    cpol, cpha, \* the mode both ends are set to
    devIn,      \* bits the device has sampled of the current word
    devOut,     \* bits the device has left to show, the one on miso first
    addr,       \* the address of the transaction under way
    age,        \* clock edges since sclk last changed or the device was selected
    mSent, dRcvd,   \* words latched from tx_data, words the device received
    dSent, mRcvd    \* words the device loaded, words put on rx_data

mode == <<cpol, cpha>>
dev == <<devIn, devOut>>
logs == <<mSent, dRcvd, dSent, mRcvd>>
vars == <<masterVars, mode, dev, addr, age, logs>>

MaxAge == 2 * (CHOOSE d \in Dividers \cup {1} : \A e \in Dividers : d >= e)

LInit ==
    /\ Init
    /\ cpol \in Bit /\ cpha \in Bit
    /\ devIn = << >> /\ devOut = << >>
    /\ addr = 0 /\ age = 0
    /\ mSent = << >> /\ dRcvd = << >> /\ dSent = << >> /\ mRcvd = << >>

miso == IF devOut = << >> THEN 0 ELSE Head(devOut)

-----------------------------------------------------------------------------
(* What the device does about a step of the master. *)

anySelected == \E i \in 0 .. slaves - 1 : ss_n[i] = 0

\* A word is loaded when the device is selected and when it has shown one.
DevLoads == \E w \in Word : devOut' = w

\* The first sample of a word is also the one at which the master takes the
\* first bit of the word on miso: only then is that word under way.
DevSamples(bit) ==
    /\ IF Len(devIn) = d_width - 1
       THEN devIn' = << >> /\ dRcvd' = Append(dRcvd, Append(devIn, bit))
       ELSE devIn' = Append(devIn, bit) /\ UNCHANGED dRcvd
    /\ dSent' = IF devIn = << >> THEN Append(dSent, devOut) ELSE dSent
    /\ UNCHANGED devOut

DevShifts == IF Len(devOut) > 1 THEN devOut' = Tail(devOut) ELSE DevLoads

Leading == sclk # sclk' /\ sclk = cpol
Trailing == sclk # sclk' /\ sclk # cpol

Device ==
    \/ /\ ~anySelected' \* not selected, or no longer
       /\ devIn' = << >> /\ devOut' = << >>
       /\ UNCHANGED <<dRcvd, dSent>>
    \/ /\ ~anySelected /\ anySelected'
       /\ devIn' = << >> /\ UNCHANGED <<dRcvd, dSent>>
       /\ IF cpha = 0 THEN DevLoads ELSE UNCHANGED devOut
    \/ /\ anySelected /\ anySelected'
       /\ IF (cpha = 0 /\ Leading) \/ (cpha = 1 /\ Trailing)
          THEN \E bit \in {mosi, mosi'} : DevSamples(bit)
          ELSE IF Leading \/ Trailing
          THEN DevShifts /\ UNCHANGED <<devIn, dRcvd, dSent>>
          ELSE UNCHANGED <<dev, dRcvd, dSent>>

\* Clock edges since the last change of sclk or of the selection.
Ages ==
    age' = IF sclk' # sclk \/ ss_n' # ss_n THEN 1
           ELSE IF age < MaxAge THEN age + 1 ELSE age

-----------------------------------------------------------------------------
LAccept ==
    /\ Len(mSent) < MaxWords
    /\ \E div \in Dividers, a \in Addresses, w \in Word :
        /\ Accept(cpol, cpha, div, a, w)
        /\ mSent' = Append(mSent, w)
        /\ addr' = a
    /\ Device /\ Ages
    /\ UNCHANGED <<mode, mRcvd>>

LRest ==
    /\ Rest /\ Device /\ Ages
    /\ UNCHANGED <<mode, addr, mSent, mRcvd>>

LWait ==
    /\ Wait /\ Device /\ Ages
    /\ UNCHANGED <<mode, addr, mSent, mRcvd>>

\* A word is ready when busy falls.
Announces == mRcvd' = IF busy' = 0 THEN Append(mRcvd, rx_data') ELSE mRcvd

\* cont is low, or does not matter in this cycle.
LHit ==
    /\ Hit(FALSE, tx_buffer, miso)
    /\ Announces /\ Device /\ Ages
    /\ UNCHANGED <<mode, addr, mSent>>

\* cont is high at the last bit: the word on tx_data follows at once.
LHitReloads ==
    /\ clk_toggles = last_bit_rx
    /\ Len(mSent) < MaxWords
    /\ \E w \in Word : Hit(TRUE, w, miso) /\ mSent' = Append(mSent, w)
    /\ Announces /\ Device /\ Ages
    /\ UNCHANGED <<mode, addr>>

LReset ==
    /\ Reset /\ Ages
    /\ devIn' = << >> /\ devOut' = << >>
    /\ mSent' = << >> /\ dRcvd' = << >> /\ dSent' = << >> /\ mRcvd' = << >>
    /\ UNCHANGED <<mode, addr>>

Tick == LAccept \/ LRest \/ LWait \/ LHit \/ LHitReloads

Next == Tick \/ LReset

Spec == LInit /\ [][Next]_vars

\* The system clock keeps running.
FairSpec == Spec /\ WF_vars(Tick)
-----------------------------------------------------------------------------
TypeOK ==
    /\ state \in {"ready", "execute"}
    /\ slave \in 0 .. slaves - 1
    /\ clk_ratio \in (Dividers \cup {1}) \ {0}
    /\ count \in 1 .. clk_ratio
    /\ clk_toggles \in 0 .. Toggles + 1
    /\ last_bit_rx \in 0 .. Toggles
    /\ {assert_data, continue} \subseteq BOOLEAN
    /\ rx_buffer \in Word /\ tx_buffer \in Word /\ rx_data \in Word
    /\ sclk \in Bit /\ mosi \in Bit \cup {Z} /\ busy \in Bit
    /\ ss_n \in [0 .. slaves - 1 -> Bit]

(* At most one line is low, during a transaction only, and it is the one   *)
(* asked for, or the first when the one asked for does not exist.          *)
SelectsTheAddressed ==
    \A i \in 0 .. slaves - 1 :
        ss_n[i] = 0 => state = "execute" /\ i = (IF addr < slaves THEN addr ELSE 0)

MosiChannel == INSTANCE SerialChannel WITH
    Words <- Word, Capacity <- 1, sent <- mSent, rcvd <- dRcvd
MisoChannel == INSTANCE SerialChannel WITH
    Words <- Word, Capacity <- 1, sent <- dSent, rcvd <- mRcvd

(* In every mode, at every divider, single words and words run together by *)
(* cont: what the client hands over reaches the device, bit for bit and in *)
(* order, even when the device samples while mosi is changing.             *)
MosiDelivers == MosiChannel!Spec

(* ... and each word the device shows is on rx_data when busy falls.       *)
MisoDelivers == MisoChannel!Spec

(* The clock line is at its rest level when the device is selected and     *)
(* when a transaction ends, so the device sees whole pulses only.          *)
SelectFramesClock ==
    [][anySelected' # anySelected /\ (anySelected => busy' = 0)
         => sclk = cpol /\ sclk' = cpol]_vars

(* Selected, the clock line keeps every level, and the setup and hold time *)
(* around the selection, for exactly clk_ratio cycles.                     *)
HalfPeriodKept ==
    [][anySelected /\ (sclk' # sclk \/ (~anySelected' /\ busy' = 0))
         => age = clk_ratio]_vars

(* A transaction ends when the client runs out of words.                   *)
TransactionEnds == state = "execute" ~> state = "ready"

(* Both directions at once deliver their words, and the transaction ends.  *)
WordsDelivered == MosiDelivers /\ MisoDelivers /\ TransactionEnds

(* The device sees nothing but whole pulses of full length.                *)
ClockWellFormed == SelectFramesClock /\ HalfPeriodKept
================================================================================
