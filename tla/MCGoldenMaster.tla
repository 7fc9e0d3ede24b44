--------------------------- MODULE MCGoldenMaster ---------------------------
EXTENDS GoldenMaster

Order == INSTANCE GoldenOrder
Arith == INSTANCE GoldenArith
Mixed == INSTANCE GoldenMixed
Round == INSTANCE GoldenRound
Words == INSTANCE GoldenWords
Conv == INSTANCE GoldenConv

AllDrivers ==
    Order!OrderDrivers @@ Arith!ArithDrivers @@ Mixed!MixedDrivers @@ Round!RoundDrivers
    @@ Words!WordsDrivers @@ Conv!ConvDrivers

KnownGaps == Mixed!MixedGaps \cup Words!WordsGaps \cup Conv!ConvGaps

AlikeScripts == Permutations(Scripts)

=============================================================================
