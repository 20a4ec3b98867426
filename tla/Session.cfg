SPECIFICATION Spec
CONSTANTS
  Ids = {i1}
INVARIANTS TypeOK KeysStay InitRepairs
PROPERTIES DoctorSeesInit
