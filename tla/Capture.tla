------------------------------ MODULE Capture ------------------------------
(***************************************************************************)
(* The panel that takes a photo, a sound or a film (CapturePanel.tsx and   *)
(* capture.ts) for a field of the form.  Opening the hardware, ending a    *)
(* recording, decoding a sound and depositing a file all take time, and    *)
(* the user may act, or leave, in the middle of each.                      *)
(***************************************************************************)
EXTENDS Naturals, FiniteSets

CONSTANTS
  CaptureModes,       \* what the field accepts, among "photo", "audio", "video"
  Off,         \* no mode, no stream
  MaxStreams,  \* bound of the model: openings of the hardware
  MaxTakes     \* bound of the model: photos and recordings

ASSUME CaptureAssumption ==
  /\ CaptureModes \subseteq {"photo", "audio", "video"} /\ Off \notin CaptureModes \cup Nat
  /\ MaxStreams \in Nat /\ MaxTakes \in Nat

VARIABLES
  mode,        \* what the panel shows
  flux,        \* the stream it holds
  pending,     \* the requests that wait for the authorisation
  lit,         \* the openings whose tracks run
  enregistre,  \* the panel says it records
  held,        \* the recorder it can stop
  occupe,      \* a deposit is under way
  takes,       \* photos and recordings, until their file is deposited
  mounted,     \* the panel is on the screen
  hasty,       \* history: the user acted while an authorisation was awaited
  openings, shots  \* how many were opened, and taken

captureVars ==
  <<mode, flux, pending, lit, enregistre, held, occupe, takes, mounted, hasty, openings, shots>>

CaptureInit ==
  /\ mode = Off /\ flux = Off /\ pending = {} /\ lit = {}
  /\ enregistre = FALSE /\ held = Off /\ occupe = FALSE /\ takes = {}
  /\ mounted = TRUE /\ hasty = FALSE /\ openings = 0 /\ shots = 0

Without(s) == lit \ {s}

(* A recorder whose stream is closed ends of itself. *)
Ended(closed) ==
  {IF t.at = "recording" /\ t.stream \in closed THEN [t EXCEPT !.at = "ended", !.cut = TRUE] ELSE t : t \in takes}

Gesture == hasty' = (hasty \/ pending # {})

(* refermer: the stream, the recorder, the mode. *)
Refermer ==
  /\ lit' = Without(flux)
  /\ flux' = Off /\ held' = Off /\ enregistre' = FALSE /\ mode' = Off

-----------------------------------------------------------------------------
(* The hardware.                                                           *)

(* Mutant: the stream that was open is let go, not closed. *)
LetsGo == flux' = Off /\ UNCHANGED <<lit, takes>>

ClosesFirst == lit' = Without(flux) /\ takes' = Ended({flux}) /\ flux' = Off

(* ouvrir: the same mode closes; another closes first, then asks.          *)
OpenHardware(m) ==
  /\ mounted /\ ~occupe /\ ~enregistre
  /\ Gesture
  /\ IF mode = m
     THEN Refermer /\ takes' = Ended({flux}) /\ UNCHANGED <<pending, openings>>
     ELSE /\ openings < MaxStreams /\ openings' = openings + 1
          /\ ClosesFirst
          /\ pending' = pending \cup {[mode |-> m, stream |-> openings']}
          /\ enregistre' = FALSE
          /\ UNCHANGED <<mode, held>>
  /\ UNCHANGED <<occupe, mounted, shots>>

(* The browser answers; the panel may show something else by then.         *)
Granted(p) ==
  /\ p \in pending /\ pending' = pending \ {p}
  /\ lit' = lit \cup {p.stream} /\ flux' = p.stream /\ mode' = p.mode
  /\ UNCHANGED <<enregistre, held, occupe, takes, mounted, hasty, openings, shots>>
Denied(p) ==
  /\ p \in pending /\ pending' = pending \ {p}
  /\ mode' = Off
  /\ UNCHANGED <<flux, lit, enregistre, held, occupe, takes, mounted, hasty, openings, shots>>

(* The button Fermer. *)
CloseHardware ==
  /\ mounted /\ mode # Off /\ ~occupe
  /\ Refermer /\ takes' = Ended({flux})
  /\ Gesture
  /\ UNCHANGED <<pending, occupe, mounted, openings, shots>>

(* Mutant: the screen goes and the stream stays. *)
Forgets == UNCHANGED <<lit, takes, flux>>

Leaves == lit' = Without(flux) /\ takes' = Ended({flux}) /\ flux' = Off

Unmount ==
  /\ mounted /\ mounted' = FALSE
  /\ Leaves
  /\ Gesture
  /\ UNCHANGED <<mode, pending, enregistre, held, occupe, openings, shots>>

-----------------------------------------------------------------------------
(* What is taken.                                                          *)

Take(t) ==
  /\ shots < MaxTakes /\ shots' = shots + 1
  /\ takes' = takes \cup {t}

(* prendreLaPhoto: a frame of the stream that the panel shows.             *)
Photo ==
  /\ mounted /\ mode = "photo" /\ ~occupe
  /\ Take([id |-> shots + 1, at |-> "ended", stream |-> flux, kind |-> "photo", cut |-> FALSE])
  /\ Gesture
  /\ UNCHANGED <<mode, flux, pending, lit, enregistre, held, occupe, mounted, openings>>

(* demarrerEnregistrement.                                                 *)
StartRecording ==
  /\ mounted /\ mode \in {"audio", "video"} /\ ~enregistre /\ ~occupe /\ flux # Off
  /\ Take([id |-> shots + 1, at |-> "recording", stream |-> flux, kind |-> mode, cut |-> FALSE])
  /\ held' = shots + 1 /\ enregistre' = TRUE
  /\ Gesture
  /\ UNCHANGED <<mode, flux, pending, lit, occupe, mounted, openings>>

(* arreterEnregistrement.                                                  *)
StopRecording ==
  /\ mounted /\ mode \in {"audio", "video"} /\ enregistre
  /\ enregistre' = FALSE
  /\ takes' = {IF t.id = held /\ t.at = "recording" THEN [t EXCEPT !.at = "ended"] ELSE t : t \in takes}
  /\ Gesture
  /\ UNCHANGED <<mode, flux, pending, lit, held, occupe, mounted, openings, shots>>

(* The recorder fails, or a sound cannot be decoded.                       *)
Spoiled(t) ==
  /\ t \in takes /\ t.at \in {"recording", "ended"} /\ takes' = takes \ {t}
  /\ enregistre' = (t.kind = "photo" /\ enregistre)
  /\ UNCHANGED <<mode, flux, pending, lit, held, occupe, mounted, hasty, openings, shots>>

(* rendre: the deposit; it closes all when it succeeds, and leaves the     *)
(* hardware open when it fails.                                            *)
Give(t) ==
  /\ t \in takes /\ t.at = "ended"
  /\ takes' = (takes \ {t}) \cup {[t EXCEPT !.at = "deposit"]}
  /\ occupe' = TRUE
  /\ UNCHANGED <<mode, flux, pending, lit, enregistre, held, mounted, hasty, openings, shots>>
Given(t) ==
  /\ t \in takes /\ t.at = "deposit" /\ occupe' = FALSE
  /\ \/ /\ Refermer
        /\ takes' = Ended({flux}) \ {t}
     \/ /\ takes' = takes \ {t}
        /\ UNCHANGED <<mode, flux, lit, enregistre, held>>
  /\ UNCHANGED <<pending, mounted, hasty, openings, shots>>

CaptureNext ==
  \/ \E m \in CaptureModes : OpenHardware(m)
  \/ \E p \in pending : Granted(p) \/ Denied(p)
  \/ CloseHardware \/ Unmount \/ Photo \/ StartRecording \/ StopRecording
  \/ \E t \in takes : Spoiled(t) \/ Give(t) \/ Given(t)

-----------------------------------------------------------------------------
(* The light of the camera is on only for what the panel shows: it goes    *)
(* out when the mode changes, the panel closes, the screen goes, a file is *)
(* deposited.  A user who acts while the browser asks for an authorisation *)
(* escapes it.                                                             *)
LightHeld ==
  ~hasty =>
    /\ lit = {flux} \ {Off}
    /\ flux # Off => mounted /\ mode # Off
    /\ enregistre /\ mounted => flux # Off

(* The header of CapturePanel.tsx says it of every path ("Ce qui est       *)
(* ouvert se referme, sur tous les chemins").                              *)
LightAlwaysHeld ==
  lit = {flux} \ {Off} /\ (flux # Off => mounted /\ mode # Off)

(* A recording that is deposited was stopped by its user.  It is not: the  *)
(* deposit of the former one closes the stream, and so does Fermer.        *)
RecordedWhole == \A t \in takes : t.at = "deposit" => ~t.cut
=============================================================================
