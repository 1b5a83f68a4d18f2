SPECIFICATION Spec
INVARIANTS LuFftExact OceanExact WaterExact
