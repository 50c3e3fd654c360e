------------------------------ MODULE BrokerStart ----------------------------
(***************************************************************************)
(* How the fine-tuning broker starts (fine-tuning/cmd/server/main.go and   *)
(* common/docker/image.go): the main routine brings up one service after   *)
(* another while a goroutine builds the image of the trainings, and serves *)
(* only when both are done.  Any failure ends the process; docker, its     *)
(* images and containers, and the bridge directory outlive it.             *)
(***************************************************************************)
EXTENDS Integers

CONSTANTS
  BuildImage,     \* config.Images.BuildImage
  OverrideImage,  \* config.Images.OverrideImage
  Embedded,       \* the training files are where the broker's own image has them
  MaxStarts,      \* bound: starts of the broker
  None

ASSUME BrokerStartAssumption ==
  /\ {BuildImage, OverrideImage, Embedded} \subseteq BOOLEAN /\ MaxStarts \in Nat

VARIABLES
  main,      \* what the main routine does next; "down" when there is no process
  builder,   \* the goroutine, then what it leaves in imageChan
  image,     \* the start that made the image docker has for the tag, or None
  other,     \* docker has the image of the task's model, if that has its own
  bridge,    \* the directory the image is built from
  starts

startVars == << main, builder, image, other, bridge, starts >>

MainSteps    == << "init", "quote", "mark", "sync", "loops", "image", "settlement", "serving" >>
BuilderSteps == {"off", "check", "clean", "copy", "build", "sent", "closed"}
Bridges      == {"older", "empty", "part", "whole"}

StartInit ==
  /\ main = "down" /\ builder = "off" /\ starts = 0
  /\ image \in {None, 0} /\ other \in BOOLEAN
  /\ bridge = IF Embedded THEN "older" ELSE "whole"

Main ==
  /\ main = "down" /\ starts < MaxStarts
  /\ main' = "init" /\ starts' = starts + 1
  /\ builder' = IF BuildImage THEN "check" ELSE "sent"
  /\ UNCHANGED << image, other, bridge >>

(* A step of the main routine that succeeds; one that fails is a panic.    *)
Advance(step) ==
  /\ main = step
  /\ \E i \in DOMAIN MainSteps : MainSteps[i] = step /\ main' = MainSteps[i + 1]
  /\ UNCHANGED << builder, image, other, bridge, starts >>

initializeServices == Advance("init")
SyncQuote          == Advance("quote")
SyncServices       == Advance("sync")
StartLoops         == Advance("loops")
StartSettlement    == Advance("settlement")

(* The receive from imageChan: a value, or the channel closed without one. *)
ImageReady  == builder = "sent" /\ Advance("image")
ImageFailed ==
  /\ main = "image" /\ builder = "closed"
  /\ main' = "down" /\ builder' = "off"
  /\ UNCHANGED << image, other, bridge, starts >>

(* A panic, a signal or a crash, at any time.                              *)
Down == main # "down" /\ main' = "down" /\ builder' = "off" /\ UNCHANGED << image, other, bridge, starts >>

------------------------------------------------------------------------------
(* The goroutine of buildImageIfNeeded.                                    *)

Builds(from, to) == builder = from /\ builder' = to /\ UNCHANGED << main, other, starts >>

ImageExists ==
  /\ Builds("check", IF image # None /\ ~ OverrideImage THEN "sent"
                     ELSE IF Embedded THEN "clean" ELSE "build")
  /\ UNCHANGED << image, bridge >>

CleanBridge   == Builds("clean", "copy") /\ bridge' = "empty" /\ UNCHANGED image
copyDirectory ==
  \/ Builds("copy", "build")  /\ bridge' = "whole" /\ UNCHANGED image
  \/ Builds("copy", "closed") /\ bridge' = "part"  /\ UNCHANGED image
ImageBuild    == Builds("build", "sent") /\ image' = starts /\ UNCHANGED bridge
BuildFails    == \E s \in {"check", "clean", "build"} : Builds(s, "closed") /\ UNCHANGED << image, bridge >>

Builder == ImageExists \/ CleanBridge \/ copyDirectory \/ ImageBuild \/ BuildFails

Kinds == {"predefined", "mock", "customized"}

(* PullImage, by an executor, of the image getContainerImage names: the    *)
(* broker builds that of the predefined models only, a mock model and a    *)
(* customized one have their own.  An image that is there is taken as it   *)
(* is; one that is not is pulled for a customized model, and for the       *)
(* others if the broker does not build its own.                            *)
PullImage(kind) ==
  LET needPull == kind = "customized" \/ ~ BuildImage IN
  /\ \/ /\ kind = "predefined" /\ (image # None \/ needPull)
        /\ image' = IF image = None THEN starts ELSE image
        /\ UNCHANGED other
     \/ /\ kind # "predefined" /\ (other \/ needPull)
        /\ other' = TRUE /\ UNCHANGED image
  /\ UNCHANGED << main, builder, bridge, starts >>

StartTypeOK ==
  /\ main \in {"down"} \cup {MainSteps[i] : i \in DOMAIN MainSteps}
  /\ builder \in BuilderSteps /\ bridge \in Bridges
  /\ starts \in 0 .. MaxStarts /\ image \in 0 .. MaxStarts \cup {None} /\ other \in BOOLEAN
==============================================================================
