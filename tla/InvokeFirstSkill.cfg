SPECIFICATION Spec
CONSTANTS
    Modes <- PositiveSkill
    MaxEvents = 2
    MaxRetries = 1
INVARIANT
    FirstSkillStands
CHECK_DEADLOCK FALSE
