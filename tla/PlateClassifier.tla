--------------------------- MODULE PlateClassifier ---------------------------
(***************************************************************************)
(* PlateClassifier.classify: whether a crop is a licence plate, which      *)
(* Agent B reads, or a hazard plate, which it rejects.  Ratios and shares  *)
(* of colour are in hundredths.                                            *)
(***************************************************************************)
EXTENDS Naturals
CONSTANTS
  Ratios,  \* width / height of the crops
  Shares   \* shares of the pixels with a colour

ClassifierAssumption == Ratios \subseteq Nat /\ Shares \subseteq 0 .. 100

VARIABLE crop  \* the crop being classified: ratio, white or yellow, orange or red

Crops == [ratio : Ratios, license : Shares, hazard : Shares]
TypeOK == crop \in Crops

Wide(c) == c.ratio >= 105
HazardShape(c) == c.ratio <= 190
Colourless(c) == c.license < 5 /\ c.hazard < 5

\* Wide and white enough; orange does not count when there is little of it.
LicenseByShape(c) ==
  /\ Wide(c) /\ c.license >= 3
  /\ c.license > c.hazard \/ c.hazard <= 30

\* Mutant: the bias is towards the licence plate's colours.
HazardByColourStrict(c) ==
  HazardShape(c) /\ c.hazard >= 45 /\ 10 * c.hazard <= 7 * c.license
HazardByColour(c) ==
  /\ HazardShape(c)
  /\ (c.hazard >= 45 /\ 10 * c.hazard >= 7 * c.license) \/ c.hazard > c.license

\* The tiebreaks by colour.
LicenseTie(c) == 10 * c.license > 15 * c.hazard /\ c.ratio >= 130 /\ c.license >= 3
HazardTie(c) == 10 * c.hazard > 12 * c.license /\ HazardShape(c)

Classify(c) ==
  CASE ~Wide(c) /\ Colourless(c) -> "unknown"
    [] OTHER -> CASE LicenseByShape(c) -> "license_plate"
                  [] ~LicenseByShape(c) /\ HazardByColour(c) -> "hazard_plate"
                  [] ~LicenseByShape(c) /\ ~HazardByColour(c) ->
                       CASE LicenseTie(c) -> "license_plate"
                         [] ~LicenseTie(c) /\ HazardTie(c) -> "hazard_plate"
                         [] ~LicenseTie(c) /\ ~HazardTie(c) ->
                              IF Wide(c) THEN "license_plate" ELSE "unknown"

Init == crop \in Crops
\* The same crop in another light.
MoreOrange == \E s \in Shares : s > crop.hazard /\ crop' = [crop EXCEPT !.hazard = s]
MoreWhite == \E s \in Shares : s > crop.license /\ crop' = [crop EXCEPT !.license = s]
Next == MoreOrange \/ MoreWhite
Spec == Init /\ [][Next]_crop

-----------------------------------------------------------------------------
(* Properties *)

\* The rules overlap and are tried in order, yet more orange never turns a hazard plate
\* into anything else, nor more white a licence plate.
ColoursAreMonotone ==
  [][/\ MoreOrange /\ Classify(crop) = "hazard_plate" => Classify(crop') = "hazard_plate"
     /\ MoreWhite /\ Classify(crop) = "license_plate" => Classify(crop') = "license_plate"]_crop

=============================================================================
