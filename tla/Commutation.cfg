CONSTANT
  Voltages <- MCVoltages
SPECIFICATION Spec
INVARIANTS SenseLimit TorqueAsAsked Even
