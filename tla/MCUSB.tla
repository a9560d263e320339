-------------------------------- MODULE MCUSB --------------------------------
(***************************************************************************)
(* create-usb, model-checked in its two halves, which share no state:      *)
(* USBLayout fills the root directory with the images, USBImage makes of   *)
(* it the image to be written to the stick.  A behaviour is one of builds  *)
(* of the first, of builds of the second, or of one build of the second    *)
(* with a live ISO, a payload and a size of its own.                       *)
(***************************************************************************)
EXTENDS USBLayout

CONSTANTS b1, b2

TwoBuilds == {b1, b2}
LastTagged == {Images}

\* Of USBImage, with units of half a mebibyte.
VARIABLES imageMode, iso, payload, usbSize, imagePC, err, image, loop, mounted,
          imageFaults, imageCrashes, imagePower, removals

\* Which of the three this behaviour is.
VARIABLE part

imageVars == <<imageMode, iso, payload, usbSize, imagePC, err, image, loop, mounted,
               imageFaults, imageCrashes, imagePower, removals>>

-----------------------------------------------------------------------------
(* Live ISOs of various shapes, payloads around the size that the floor of *)
(* 8 GiB allows, and sizes of sticks.                                      *)

CONSTANTS ISOs, Payloads, USBSizes
I == INSTANCE USBImage WITH mode <- imageMode, pc <- imagePC, faults <- imageFaults,
        crashes <- imageCrashes, power <- imagePower,
        Modes <- {"install-only", "self-contained"}, Mib <- 2, MaxRemovals <- 1,
        MaxFaults <- 2, MaxCrashes <- 1, MaxPower <- 1

ASSUME I!BoundsAssumption

Free == [type |-> 0, start |-> 0, count |-> 0]
Entry(t, s, c) == [type |-> t, start |-> s, count |-> c]
ISO(size, p, q, r) == [size |-> size, mbr |-> <<p, q, r, Free>>]

\* A plain isohybrid image: the ISO and its EFI partition.
Plain == ISO(2001, Entry(0, 0, 2001), Entry(239, 1, 10), Free)
ManyISOs == {
    Plain,
    ISO(2000, Entry(0, 0, 2000), Entry(239, 1, 10), Free),              \* ends on a mebibyte
    ISO(2001, Entry(23, 0, 1001), Entry(239, 1001, 100), Free),        \* partitions end before the file
    ISO(2001, Entry(0, 0, 2002), Entry(239, 1, 10), Free),              \* at the next mebibyte
    ISO(2001, Entry(0, 0, 2003), Entry(239, 1, 10), Free),              \* behind it
    ISO(2001, Entry(23, 0, 2001), Entry(239, 1, 10), Entry(0, 5, 5))}   \* a third one, of type 0

\* The largest payload that the floor of 8192 MiB holds, less 256 MiB of metadata.
Floor == 2 * 8192
FloorPayload == ((Floor - 2 * 256) * 100) \div 110
ManyPayloads == {0, 100, Floor + 1} \cup (FloorPayload - 1 .. FloorPayload + 3)

ManyBudgets == {0} \cup {2 * m : m \in {9200, 9328, 9329, 9600, 9601, 12000}}

-----------------------------------------------------------------------------
UsbInit ==
    /\ part \in {"layout", "image", "sizes"}
    /\ part = "layout" \/ (concurrent = FALSE /\ mode = [b \in Builds |-> "self-contained"])
    /\ part = "layout" => imageMode = [b \in Builds |-> "self-contained"]
    /\ part # "sizes" => /\ iso = [b \in Builds |-> Plain] /\ payload = [b \in Builds |-> 100]
                         /\ usbSize = [b \in Builds |-> 0]
    /\ part = "sizes" => \E i \in ISOs, p \in Payloads, u \in USBSizes, m \in {"install-only", "self-contained"} :
                            /\ iso = [b \in Builds |-> i] /\ payload = [b \in Builds |-> p]
                            /\ usbSize = [b \in Builds |-> u] /\ imageMode = [b \in Builds |-> m]
    /\ Init /\ I!Init

UsbNext ==
    \/ part = "layout" /\ Next /\ UNCHANGED <<imageVars, part>>
    \/ part = "image" /\ I!Next /\ UNCHANGED <<vars, part>>
    \/ part = "sizes" /\ I!Step(b1) /\ imageFaults' = 0 /\ UNCHANGED <<vars, part>>

\* In the first half every process makes progress (Fairness of USBLayout).
UsbSpec == UsbInit /\ [][UsbNext]_<<vars, imageVars, part>> /\ Fairness

(* What a build leaves is its own and complete, or what was there before:
   the payload (USBLayout) and the image (USBImage). *)
BuildsSound == PayloadSound /\ I!ImageSound

(* Every build that fills the root directory ends. *)
LayoutBuildsEnd == part = "layout" => BuildsEnd
=============================================================================
