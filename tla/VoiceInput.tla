----------------------------- MODULE VoiceInput ------------------------------
(***************************************************************************)
(* Speaking a query (voiceRecognition.js): one button starts and stops the *)
(* browser's speech recognition and a recorder of the microphone.          *)
(*                                                                         *)
(* The click handler starts the recognition, waits for the microphone, and *)
(* only then sets isRecording, so other clicks, results, the end of the    *)
(* recognition and the silence timer come in between.  The recognition     *)
(* (the browser's) may end by itself, and still reports what it heard      *)
(* after stop() until it has ended; start() before that raises.  A         *)
(* recorder becomes inactive by itself when its microphone goes away.      *)
(*                                                                         *)
(* Bounds: MaxWaits clicks wait for the microphone at a time.              *)
(***************************************************************************)
EXTENDS Naturals

CONSTANTS Spoken, MaxWaits

ASSUME VoiceAssumption == MaxWaits \in Nat \ {0}

VARIABLES
  text,         \* the query box
  isRecording,
  recognition,  \* "off", "on" or "stopping"
  waits,        \* clicks that wait for the microphone
  recorder,     \* mediaRecorder: "none", "recording" or "inactive"
  left,         \* history: recorders that run though mediaRecorder names another
  crossed,      \* history: two clicks have waited for the microphone at once
  timer         \* noSpeechTimeout is set

voiceVars == <<isRecording, recognition, waits, recorder, left, crossed, timer>>

VoiceInit ==
  /\ isRecording = FALSE
  /\ recognition = "off"
  /\ waits = 0
  /\ recorder = "none" /\ left = 0 /\ crossed = FALSE
  /\ timer = FALSE
------------------------------------------------------------------------------
StopBoth ==
  /\ recognition' = IF recognition = "on" THEN "stopping" ELSE recognition
  /\ recorder' = IF recorder = "recording" THEN "inactive" ELSE recorder
  /\ isRecording' = FALSE

\* The click that stops.
ClickStop ==
  /\ isRecording
  /\ StopBoth
  /\ timer' = FALSE
  /\ UNCHANGED <<text, waits, left, crossed>>

\* The click that starts, up to the wait for the microphone.  A recognition
\* that has not ended raises, and the click does nothing.  (The transcript
\* that it empties shows in the box with the next result only.)
ClickStart ==
  /\ ~isRecording
  /\ recognition = "off" /\ waits < MaxWaits
  /\ recognition' = "on"
  /\ waits' = waits + 1
  /\ crossed' = (crossed \/ waits > 0)
  /\ UNCHANGED <<text, isRecording, recorder, left, timer>>

\* The microphone is granted: a new recorder takes the place of the old one,
\* running or not.
Granted ==
  /\ waits > 0
  /\ waits' = waits - 1
  /\ left' = IF recorder = "recording" THEN left + 1 ELSE left
  /\ recorder' = "recording"
  /\ isRecording' = TRUE
  /\ UNCHANGED <<text, recognition, crossed, timer>>

\* It is refused: the handler ends there, and the recognition goes on.
Refused ==
  /\ waits > 0
  /\ waits' = waits - 1
  /\ UNCHANGED <<text, isRecording, recognition, recorder, left, crossed, timer>>

\* Variant with a plausible slip; nothing but a mutation run uses it.
HeardOnce ==
  /\ recognition # "off"
  /\ text' = Spoken
  /\ timer' = ~timer
  /\ UNCHANGED <<isRecording, recognition, waits, recorder, left, crossed>>

\* Speech is recognised: it replaces the query, and the timer starts anew.
Heard ==
  /\ recognition # "off"
  /\ text' = Spoken
  /\ timer' = TRUE
  /\ UNCHANGED <<isRecording, recognition, waits, recorder, left, crossed>>

RecognitionEnds ==
  /\ recognition # "off"
  /\ recognition' = "off"
  /\ UNCHANGED <<text, isRecording, waits, recorder, left, crossed, timer>>

\* Variant with a plausible slip; nothing but a mutation run uses it.
SilenceStopsListening ==
  /\ timer
  /\ timer' = FALSE
  /\ recognition' = IF recognition = "on" THEN "stopping" ELSE recognition
  /\ isRecording' = FALSE
  /\ UNCHANGED <<text, waits, recorder, left, crossed>>

\* Seven seconds without speech.
Silence ==
  /\ timer
  /\ timer' = FALSE
  /\ StopBoth
  /\ UNCHANGED <<text, waits, left, crossed>>

\* A recorder stops by itself, the named one or one that was left behind;
\* nobody tells the button.
MicrophoneLost ==
  /\ \/ recorder = "recording" /\ recorder' = "inactive" /\ UNCHANGED left
     \/ left > 0 /\ left' = left - 1 /\ UNCHANGED recorder
  /\ UNCHANGED <<text, isRecording, recognition, waits, crossed, timer>>

Browser == Granted \/ Refused \/ RecognitionEnds \/ MicrophoneLost
------------------------------------------------------------------------------
(***************************************************************************)
(* Properties.                                                             *)
(***************************************************************************)
\* However clicks, late grants of the microphone, late results, lost microphones
\* and the timer of an earlier recording interleave, the next click stops the
\* recorder that runs: the button never starts a recording while another runs.
\* Only when two clicks waited for the microphone at once may a recorder run
\* that no click stops.
RecorderHasItsButton ==
  /\ waits \in 0..MaxWaits /\ left \in Nat
  /\ recognition \in {"off", "on", "stopping"}
  /\ isRecording \in BOOLEAN /\ crossed \in BOOLEAN
  /\ recorder = "recording" => isRecording
  /\ left > 0 => crossed

\* A recording that has heard something, whenever the timer was set, ends
\* without a click once nothing is said any more.
HeardRecordingEnds == timer ~> ~isRecording
==============================================================================
