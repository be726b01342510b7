CONSTANTS
    Granularity = 32768
    DelayNum = 1
    DelayDen = 2
    Vals = {0, 1, 2, 255, 256, 16383, 16384, 32767, 32768, 32769, 43690, 65534, 65535}
SPECIFICATION Spec
INVARIANT ShiftsAgree ShcRotates BitTestsAgree CountedLoops LogicAgrees ChainSums TimeConserved CallReturns RiFill StoresReadBack
