CONSTANTS
  MaxExact = 64
  Wide = 128
  MaxSieve = 38
  MaxCount = 5
  MaxTable = 5
  MaxPowExponent = 6
  MaxPowBits = 20
  Vars <- MCVars
  IntegerFns <- MCIntegerFns
  IntegerArgs <- MCIntegerArgs
  IntegerExprs <- MCIntegerExprs
  Env <- MCVars
  Quotes <- MCQuotes
  Letters = {"a", "b", "c"}
  UnitQuestions <- MCUnitQuestions
  EditQuestions <- MCEditQuestions
  CurrencyQuestions <- MCCurrencyQuestions
  UnitExprs <- MCUnitExprs
  FxExprs <- MCFxExprs
  CurrencyCodes <- MCCurrencyCodes
  BudgetRequests <- MCBudgetRequests
  PricingRequests <- MCPricingRequests
  Tables <- MCTables
  Texts <- MCTexts
  Zones <- MCZones
  Spring <- MCSpring
  Fall <- MCFall
  MaxInstant = 1900000000
  MaxSpan = 100000
  Clock = 90000000
  Days <- MCDays
  TimeExprs <- MCTimeExprs
  MAX_MATRIX_DIM = 3
  VectorQuestions <- MCVectorQuestions
  MatrixExprs <- MCMatrixExprs
  NumericalFns <- MCNumericalFns
  NumericalQuestions <- MCNumericalQuestions
  DistributionQuestions <- MCDistributionQuestions
  DistributionCalls <- MCDistributionCalls
  InverseSteps = 12
  InverseTol <- MCInverseTol
  Least <- MCLeast
  Fine = 4
  StatQuestions <- MCStatQuestions
  RegressionQuestions <- MCRegressionQuestions
  PolyExprs <- MCPolyExprs
  SymbolicExprs <- MCSymbolicExprs
  MaxDegree = 6
  MAX_EXPR_LEN = 60
  MAX_AST_DEPTH = 6
  WrittenExprs <- MCWrittenExprs
  ParseTexts <- MCParseTexts
  StepExprs <- MCStepExprs
  LatexExprs <- MCLatexExprs
  ShownResults <- MCShownResults
  ShownPlaces <- MCShownPlaces
  RealExprs <- MCRealExprs
  ScientificExprs <- MCScientificExprs
  ExactExprs <- MCExactExprs
  ComplexExprs <- MCComplexExprs
  FunctionQuestions <- MCFunctionQuestions
  SolverQuestions <- MCSolverQuestions
  Bindings <- MCBindings
  MaxPrecision = 6
  MaxFloat = 2000
  MAX_FACTORIAL_INPUT = 9
  MAX_BESSEL_ORDER = 4
  NearOne <- MCNearOne
  Tiny <- MCTiny
  AiryTerms = 2
  Grid = 16
  SlopeStep <- MCSlopeStep
  RootTol <- MCRootTol
  RootSteps = 12
  IntegralTol <- MCIntegralTol
  IntegralDepth = 4
SPECIFICATION Spec
PROPERTIES IntegersRight MoneyRight CalendarRight LinearRight AlgebraRight TextRight NumbersRight
